---- MODULE Spec2Model ----
(***************************************************************************)
(* Model of the sec_module rule registry (CharDevice/CharDevRustV4):       *)
(*   - UserRuleStore: a Mutex<Vec<UserRule>> with add_rule, remove_rule,   *)
(*     get_rules_by_id and get_all_rules (ioctlcmd/structures/mod.rs);     *)
(*   - rust_ioctl: the control-request dispatcher (ioctlcmd/mod.rs).       *)
(* Callers are kernel threads; each runs one call at a time, and the       *)
(* critical section of every store method is split into the steps between  *)
(* which another thread could run if the mutex did not exclude it.         *)
(***************************************************************************)
EXTENDS Integers, Sequences, FiniteSets, TLC

\* ------------------------------------------------------------------ bounds
NCallers == 2
MaxRules == 3
MaxConcRules == 2
MaxIoctlRules == 2
MaxReadRules == 2
MaxQueryRules == 17
MaxDeviceRules == 4
MaxSharedRules == 2
MaxInputRules == 2
MaxPagedRules == 4
MaxOrderRules == 3

\* ------------------------------------------------------- program constants
RULE_SIZE == 256
RULE_NUMBER == 16
RULE_BUFFER_SIZE == RULE_SIZE * RULE_NUMBER

EINVAL == 22
EFAULT == 14
ENOMEM == 12

Callers == 1..NCallers
NoOwner == 0

\* ------------------------------------------------------------- byte strings
Fill(n, b) == [i \in 1..n |-> b]

HelloRust == <<72, 101, 108, 108, 111, 32, 82, 117, 115, 116, 32, 58, 41>>

\* init_rules: initial_uid
INITIAL_UID == 1001

\* the uids callers name: the default user and another one
Uids == {INITIAL_UID, 2002}

\* Result<T, Error>: Ok(v) carries a value, Err(e) an errno; Panic is the outcome
\* of expect()/unwrap() on an Err (the call never returns).
Ok(v) == [ok |-> TRUE, err |-> 0, val |-> v, panic |-> FALSE]
Err(e) == [ok |-> FALSE, err |-> e, val |-> <<>>, panic |-> FALSE]
Panic == [ok |-> FALSE, err |-> 0, val |-> <<>>, panic |-> TRUE]
NoResult == [ok |-> FALSE, err |-> 0, val |-> <<>>, panic |-> FALSE]

VARIABLES
  store,     \* Vec<UserRule> inside the Mutex: a sequence of [uid, rules]
  mutex,     \* the caller holding the store mutex, or NoOwner
  panicked,  \* TRUE once a thread has hit expect()/unwrap() on an Err
  pc,        \* pc[t]: where caller t is
  frame,     \* frame[t]: the entry point caller t came through
  uid,       \* uid[t]: the uid argument of the running call
  rule,      \* rule[t]: the CString argument (its bytes, without the NUL)
  pre,       \* pre[t]: the registry as it was when t acquired the mutex
  snap,      \* snap[t]: the clones get_all_rules has pushed so far
  idx,       \* idx[t]: position of the get_all_rules iterator
  sret,      \* sret[t]: the Result the store method returned
  cmd,       \* cmd[t]: the command of the running rust_ioctl
  arg,       \* arg[t]: the argument pointer of the running rust_ioctl
  urec,      \* urec[t]: the record rust_ioctl copied from behind arg
  ret,       \* ret[t]: the isize rust_ioctl or rust_read returns
  uout,      \* uout[t]: the bytes the running call wrote to the caller's buffer
  umem,      \* umem[t]: the caller's IoctlReadArgument behind arg, byte by byte
  offset,    \* offset[t]: the u64 behind the offset pointer of rust_read
  count,     \* count[t]: the count argument of the running rust_read
  hist       \* hist[t]: what t's reads delivered since its offset was 0

vars == <<store, mutex, panicked, pc, frame, uid, rule, pre, snap, idx, sret,
          cmd, arg, urec, ret, uout, umem, offset, count, hist>>

\* what belongs to the entry point a caller came through
entryVars == <<frame, cmd, arg, urec, ret, uout, umem, offset, count, hist>>

\* the caller's side of a sequence of reads: the file offset and the reads so far
fileVars == <<offset, count, hist>>

\* an argument pointer: null or not, and whether the memory behind it can be
\* read and written by copy_from_user / copy_to_user
Arg(n, r, w) == [null |-> n, readable |-> r, writable |-> w]
NoArg == Arg(TRUE, FALSE, FALSE)

\* IoctlArgument / IoctlReadArgument as copied from user space: the uid and,
\* for add and remove, the rule field
Rec(u, field) == [uid |-> u, rule |-> field]
NoRec == Rec(0, <<>>)

\* no command: the four bit fields of the u32 command number, all zero
NoCmd == <<0, 0, 0, 0>>

\* The reads of one caller since its offset was 0: `reg` is the registry the
\* first of them rendered (once `started`), `got` the bytes they delivered one
\* after the other, and `clean` tells that every one of them succeeded and
\* that the registry is still the one they rendered. StaleHist stands for a
\* sequence during which the registry was mutated, NoHist for an offset that
\* does not come from a sequence of successful reads from 0.
Hist(st, r, g, c) == [started |-> st, reg |-> r, got |-> g, clean |-> c]
NewHist == Hist(FALSE, <<>>, <<>>, TRUE)
NoHist == Hist(FALSE, <<>>, <<>>, FALSE)
StaleHist == Hist(TRUE, <<>>, <<>>, FALSE)

\* ------------------------------------------------------------ Vec<UserRule>
UserRule(u, rs) == [uid |-> u, rules |-> rs]

\* store.iter().find(|ur| ur.uid == uid): index of the first match, 0 if none
find(s, u) ==
  IF \E i \in 1..Len(s) : s[i].uid = u
  THEN CHOOSE i \in 1..Len(s) : s[i].uid = u /\ \A j \in 1..(i - 1) : s[j].uid # u
  ELSE 0

RECURSIVE SumLen(_)
SumLen(s) == IF s = <<>> THEN 0 ELSE Len(Head(s).rules) + SumLen(Tail(s))

TotalRules(s) == SumLen(s)

\* ------------------------------------------------------------------ strings
\* core::str::from_utf8, as CStr::to_str applies it. SeqLen(x) is the length of
\* the sequence a first byte x opens (0: x opens none); a string is well formed
\* iff every first byte is followed by its continuation bytes, the second of
\* them in the range its first byte allows, and every continuation byte
\* belongs to the sequence of a first byte at most three places before it.
Cont(x) == x >= 128 /\ x <= 191

SeqLen(x) ==
  IF x <= 127 THEN 1
  ELSE IF x >= 194 /\ x <= 223 THEN 2
  ELSE IF x >= 224 /\ x <= 239 THEN 3
  ELSE IF x >= 240 /\ x <= 244 THEN 4
  ELSE 0

SecondOk(x, y) ==
  IF x = 224 THEN y >= 160 /\ y <= 191
  ELSE IF x = 237 THEN y >= 128 /\ y <= 159
  ELSE IF x = 240 THEN y >= 144 /\ y <= 191
  ELSE IF x = 244 THEN y >= 128 /\ y <= 143
  ELSE Cont(y)

IsUtf8(b) ==
  \A i \in 1..Len(b) :
    IF Cont(b[i])
    THEN \E k \in 1..3 :
           /\ i - k >= 1
           /\ SeqLen(b[i - k]) > k
           /\ \A m \in 1..(k - 1) : Cont(b[i - m])
    ELSE /\ SeqLen(b[i]) >= 1
         /\ i + SeqLen(b[i]) - 1 <= Len(b)
         /\ \A m \in 1..(SeqLen(b[i]) - 1) : Cont(b[i + m])
         /\ SeqLen(b[i]) >= 2 => SecondOk(b[i], b[i + 1])

\* a variant of to_str_ok that takes ASCII only
to_str_ok_ascii(b) == \A i \in 1..Len(b) : b[i] <= 127

to_str_ok(b) == IsUtf8(b)

HasNul(b) == \E i \in 1..Len(b) : b[i] = 0

\* a variant of fmt_display that formats with {:?}: the string between quotes
fmt_debug(b) == <<34>> \o b \o <<34>>

\* fmt!("{}", s) for a str s: Display writes the bytes of s one after the other
fmt_display(b) == [i \in 1..Len(b) |-> b[i]]

\* CString::try_from_fmt(args): the formatted bytes f, refused when they hold a
\* NUL, and an allocation that may fail
try_from_fmt(f, allocOk) ==
  IF ~allocOk THEN Err(ENOMEM)
  ELSE IF HasNul(f) THEN Err(EINVAL)
  ELSE Ok(f)

\* --------------------------------------------------------------------- Rule
\* Rule::new
Rule_new(rule_data) ==
  IF Len(rule_data) > RULE_SIZE THEN Err(EINVAL) ELSE Ok(rule_data)

\* Rule::clone: panics when to_str() or try_from_fmt() fails, else the copy
Rule_clone(r, allocOk) ==
  IF ~to_str_ok(r) THEN Panic
  ELSE IF ~try_from_fmt(fmt_display(r), allocOk).ok THEN Panic
  ELSE try_from_fmt(fmt_display(r), allocOk)

\* a variant of UserRule_clone that pushes the clones in the reverse order
UserRule_clone_reversed(ur, allocOk) ==
  IF Len(ur.rules) > 0 /\ ~allocOk THEN Panic
  ELSE IF \E i \in 1..Len(ur.rules) : Rule_clone(ur.rules[i], allocOk).panic
    THEN Panic
  ELSE Ok(UserRule(ur.uid, [i \in 1..Len(ur.rules) |->
                              Rule_clone(ur.rules[Len(ur.rules) + 1 - i], allocOk).val]))

\* UserRule::clone: Vec::with_capacity(..).expect(..), then each rule cloned and
\* pushed into the reserved capacity
UserRule_clone(ur, allocOk) ==
  IF Len(ur.rules) > 0 /\ ~allocOk THEN Panic
  ELSE IF \E i \in 1..Len(ur.rules) : Rule_clone(ur.rules[i], allocOk).panic
    THEN Panic
  ELSE Ok(UserRule(ur.uid, [i \in 1..Len(ur.rules) |-> Rule_clone(ur.rules[i], allocOk).val]))

\* ------------------------------------------------- UserRuleStore, as functions
\* a variant of add_rule_at that never reuses the set find gave
add_rule_at_new(s, i, u, r) == Append(s, UserRule(u, <<r>>))

\* a variant of add_rule_at that drops a rule the user already has
add_rule_at_dedup(s, i, u, r) ==
  IF i # 0
  THEN IF \E k \in 1..Len(s[i].rules) : s[i].rules[k] = r
       THEN s
       ELSE [s EXCEPT ![i].rules = Append(@, r)]
  ELSE Append(s, UserRule(u, <<r>>))

\* a variant of add_rule_at that puts a new set in front of the others
add_rule_at_front(s, i, u, r) ==
  IF i # 0
  THEN [s EXCEPT ![i].rules = Append(@, r)]
  ELSE <<UserRule(u, <<r>>)>> \o s

\* add_rule after its find: i is the index find gave (0: no such user). The
\* rule is pushed onto the rules of user i, or a new UserRule holding it alone
\* is pushed onto the store.
add_rule_at(s, i, u, r) ==
  IF i # 0
  THEN [s EXCEPT ![i].rules = Append(@, r)]
  ELSE Append(s, UserRule(u, <<r>>))

\* add_rule: the registry after a successful add
add_rule(s, u, r) == add_rule_at(s, find(s, u), u, r)

\* a variant of retain_rules that deletes the first matching rule only
retain_rules_first(s, u, r) ==
  LET i == find(s, u)
  IN  IF i = 0 \/ ~(\E k \in 1..Len(s[i].rules) : s[i].rules[k] = r) THEN s
      ELSE LET k == CHOOSE k \in 1..Len(s[i].rules) :
                      /\ s[i].rules[k] = r
                      /\ \A m \in 1..(k - 1) : s[i].rules[m] # r
           IN  [s EXCEPT ![i].rules = SubSeq(@, 1, k - 1) \o SubSeq(@, k + 1, Len(@))]

\* a variant of retain_rules whose predicate is inverted (== for !=)
retain_rules_inverted(s, u, r) ==
  LET i == find(s, u)
  IN  IF i = 0 THEN s
      ELSE [s EXCEPT ![i].rules = SelectSeq(@, LAMBDA x : x = r)]

\* user_rule.rules.retain(|r| r.rule.as_bytes() != rule_to_remove.as_bytes())
retain_rules(s, u, r) ==
  LET i == find(s, u)
  IN  IF i = 0 THEN s
      ELSE [s EXCEPT ![i].rules = SelectSeq(@, LAMBDA x : x # r)]

\* a variant of retain_users that retains every user
retain_users_none(s, u) == s

\* a variant of retain_users whose predicate is inverted (== for !=)
retain_users_inverted(s, u) == SelectSeq(s, LAMBDA ur : ur.uid = u)

\* store.retain(|ur| ur.uid != uid)
retain_users(s, u) == SelectSeq(s, LAMBDA ur : ur.uid # u)

\* remove_rule: the registry after the call
remove_rule(s, u, r) ==
  LET i == find(s, u)
      s1 == retain_rules(s, u, r)
  IN  IF i # 0 /\ s1[i].rules = <<>> THEN retain_users(s1, u) ELSE s1

\* a variant of get_rules_by_id that answers Ok(None) when the uid has no set
get_rules_by_id_none(s, u, allocOk) ==
  LET i == find(s, u)
  IN  IF i = 0 THEN Ok(<<>>)
      ELSE IF UserRule_clone(s[i], allocOk).panic THEN Panic
      ELSE Ok(<<UserRule_clone(s[i], allocOk).val>>)

\* get_rules_by_id: the Result of the call on registry s
get_rules_by_id(s, u, allocOk) ==
  LET i == find(s, u)
  IN  IF i = 0 THEN Err(EINVAL)
      ELSE IF UserRule_clone(s[i], allocOk).panic THEN Panic
      ELSE Ok(<<UserRule_clone(s[i], allocOk).val>>)

\* add_rule: its Result when allocation number `fail` fails (0: none fails;
\* 1: the push of the Rule; 2: the push of the new UserRule into the store)
add_rule_result(i, fail) ==
  IF fail = 1 \/ (fail = 2 /\ i = 0) THEN Err(ENOMEM) ELSE Ok(<<>>)

\* -------------------------------------------------------------------- Mutex
\* a variant of lock that does not wait for the owner to leave
lock_shared(t) == mutex' = t

\* self.store.lock(): blocks until the mutex is free, then owns it
lock(t) == mutex = NoOwner /\ mutex' = t

\* a variant of unlock that keeps the mutex (a guard that is never dropped)
unlock_leak(t) ==
  /\ mutex' = mutex
  /\ uid' = [uid EXCEPT ![t] = 0]
  /\ rule' = [rule EXCEPT ![t] = <<>>]
  /\ pre' = [pre EXCEPT ![t] = <<>>]
  /\ snap' = [snap EXCEPT ![t] = <<>>]
  /\ idx' = [idx EXCEPT ![t] = 0]

\* the MutexGuard going out of scope when the method returns, with the
\* method's arguments and locals
unlock(t) ==
  /\ mutex' = NoOwner
  /\ uid' = [uid EXCEPT ![t] = 0]
  /\ rule' = [rule EXCEPT ![t] = <<>>]
  /\ pre' = [pre EXCEPT ![t] = <<>>]
  /\ snap' = [snap EXCEPT ![t] = <<>>]
  /\ idx' = [idx EXCEPT ![t] = 0]

\* ------------------------------------------------------------ caller locals
\* caller t is at `label`, and no thread has stopped the kernel
at(t, label) == ~panicked /\ pc[t] = label

Idle(t) ==
  /\ pc' = [pc EXCEPT ![t] = "idle"]
  /\ frame' = [frame EXCEPT ![t] = "none"]
  /\ uid' = [uid EXCEPT ![t] = 0]
  /\ rule' = [rule EXCEPT ![t] = <<>>]
  /\ pre' = [pre EXCEPT ![t] = <<>>]
  /\ snap' = [snap EXCEPT ![t] = <<>>]
  /\ idx' = [idx EXCEPT ![t] = 0]
  /\ sret' = [sret EXCEPT ![t] = NoResult]
  /\ cmd' = [cmd EXCEPT ![t] = NoCmd]
  /\ arg' = [arg EXCEPT ![t] = NoArg]
  /\ urec' = [urec EXCEPT ![t] = NoRec]
  /\ ret' = [ret EXCEPT ![t] = 0]
  /\ uout' = [uout EXCEPT ![t] = <<>>]
  /\ umem' = [umem EXCEPT ![t] = <<>>]
  /\ count' = [count EXCEPT ![t] = 0]
  /\ hist' = [hist EXCEPT ![t] =
       IF @.clean /\ @.started /\ @.reg # store THEN StaleHist ELSE @]
  /\ UNCHANGED offset

\* adds that have been called and have not pushed yet
PendingAdds ==
  Cardinality({t \in Callers : pc[t] \in {"add_lock", "add_find", "add_push"}})

\* the registry, with the adds under way, holds fewer than max rules
Room(max) == TotalRules(store) + PendingAdds < max

\* expect()/unwrap() on an Err: the kernel stops, whoever holds the mutex
panic(t) ==
  /\ panicked' = TRUE
  /\ pc' = [pc EXCEPT ![t] = "panic"]

\* ----------------------------------------------------- UserRuleStore::add_rule
add_rule_lock(t) ==
  /\ at(t, "add_lock")
  /\ lock(t)
  /\ pre' = [pre EXCEPT ![t] = store]
  /\ pc' = [pc EXCEPT ![t] = "add_find"]
  /\ UNCHANGED <<store, panicked, entryVars, uid, rule, snap, idx, sret>>

\* store.iter_mut().find(|ur| ur.uid == uid)
add_rule_find(t) ==
  /\ at(t, "add_find")
  /\ idx' = [idx EXCEPT ![t] = find(store, uid[t])]
  /\ pc' = [pc EXCEPT ![t] = "add_push"]
  /\ UNCHANGED <<store, mutex, panicked, entryVars, uid, rule, pre, snap, sret>>

\* a variant of add_rule_push that leaves the rule in place when the
\* allocation after it fails
add_rule_push_partial(t) ==
  /\ at(t, "add_push")
  /\ \E fail \in 0..2 :
       LET r == add_rule_result(idx[t], fail)
       IN  /\ store' = IF r.ok \/ fail = 2 THEN add_rule_at(store, idx[t], uid[t], rule[t])
                       ELSE store
           /\ sret' = [sret EXCEPT ![t] = r]
  /\ pc' = [pc EXCEPT ![t] = "add_unlock"]
  /\ UNCHANGED <<mutex, panicked, entryVars, uid, rule, pre, snap, idx>>

add_rule_push(t) ==
  /\ at(t, "add_push")
  /\ \E fail \in 0..2 :
       LET r == add_rule_result(idx[t], fail)
       IN  /\ store' = IF r.ok THEN add_rule_at(store, idx[t], uid[t], rule[t]) ELSE store
           /\ sret' = [sret EXCEPT ![t] = r]
  /\ pc' = [pc EXCEPT ![t] = "add_unlock"]
  /\ UNCHANGED <<mutex, panicked, entryVars, uid, rule, pre, snap, idx>>

add_rule_unlock(t) ==
  /\ at(t, "add_unlock")
  /\ unlock(t)
  /\ pc' = [pc EXCEPT ![t] = "store_ret"]
  /\ UNCHANGED <<store, panicked, entryVars, sret>>

\* -------------------------------------------------- UserRuleStore::remove_rule
remove_rule_lock(t) ==
  /\ at(t, "rem_lock")
  /\ lock(t)
  /\ pre' = [pre EXCEPT ![t] = store]
  /\ pc' = [pc EXCEPT ![t] = "rem_retain"]
  /\ UNCHANGED <<store, panicked, entryVars, uid, rule, snap, idx, sret>>

remove_rule_retain(t) ==
  /\ at(t, "rem_retain")
  /\ store' = retain_rules(store, uid[t], rule[t])
  /\ LET i == find(store, uid[t])
     IN  IF i # 0 /\ store'[i].rules = <<>>
         THEN /\ pc' = [pc EXCEPT ![t] = "rem_prune"]
              /\ UNCHANGED sret
         ELSE /\ pc' = [pc EXCEPT ![t] = "rem_unlock"]
              /\ sret' = [sret EXCEPT ![t] = Ok(<<>>)]
  /\ UNCHANGED <<mutex, panicked, entryVars, uid, rule, pre, snap, idx>>

\* if user_rule.rules.is_empty() { store.retain(|ur| ur.uid != uid) }
remove_rule_prune(t) ==
  /\ at(t, "rem_prune")
  /\ store' = retain_users(store, uid[t])
  /\ sret' = [sret EXCEPT ![t] = Ok(<<>>)]
  /\ pc' = [pc EXCEPT ![t] = "rem_unlock"]
  /\ UNCHANGED <<mutex, panicked, entryVars, uid, rule, pre, snap, idx>>

remove_rule_unlock(t) ==
  /\ at(t, "rem_unlock")
  /\ unlock(t)
  /\ pc' = [pc EXCEPT ![t] = "store_ret"]
  /\ UNCHANGED <<store, panicked, entryVars, sret>>

\* ---------------------------------------------- UserRuleStore::get_rules_by_id
get_rules_by_id_lock(t) ==
  /\ at(t, "get_lock")
  /\ lock(t)
  /\ pre' = [pre EXCEPT ![t] = store]
  /\ pc' = [pc EXCEPT ![t] = "get_clone"]
  /\ UNCHANGED <<store, panicked, entryVars, uid, rule, snap, idx, sret>>

\* a variant of get_rules_by_id_clone that moves the set out of the store
\* instead of cloning it
get_rules_by_id_clone_take(t) ==
  /\ at(t, "get_clone")
  /\ \E allocOk \in BOOLEAN :
       LET r == get_rules_by_id(store, uid[t], allocOk)
       IN  IF r.panic
           THEN panic(t) /\ UNCHANGED <<sret, store>>
           ELSE /\ sret' = [sret EXCEPT ![t] = r]
                /\ store' = retain_users(store, uid[t])
                /\ pc' = [pc EXCEPT ![t] = "get_unlock"]
                /\ UNCHANGED panicked
  /\ UNCHANGED <<mutex, entryVars, uid, rule, pre, snap, idx>>

get_rules_by_id_clone(t) ==
  /\ at(t, "get_clone")
  /\ \E allocOk \in BOOLEAN :
       LET r == get_rules_by_id(store, uid[t], allocOk)
       IN  IF r.panic
           THEN panic(t) /\ UNCHANGED sret
           ELSE /\ sret' = [sret EXCEPT ![t] = r]
                /\ pc' = [pc EXCEPT ![t] = "get_unlock"]
                /\ UNCHANGED panicked
  /\ UNCHANGED <<store, mutex, entryVars, uid, rule, pre, snap, idx>>

get_rules_by_id_unlock(t) ==
  /\ at(t, "get_unlock")
  /\ unlock(t)
  /\ pc' = [pc EXCEPT ![t] = "store_ret"]
  /\ UNCHANGED <<store, panicked, entryVars, sret>>

\* ------------------------------------------------ UserRuleStore::get_all_rules
\* a variant of get_all_rules_lock that reads the store without its mutex
get_all_rules_lock_free(t) ==
  /\ at(t, "all_lock")
  /\ pre' = [pre EXCEPT ![t] = store]
  /\ pc' = [pc EXCEPT ![t] = "all_alloc"]
  /\ UNCHANGED <<store, mutex, panicked, entryVars, uid, rule, snap, idx, sret>>

get_all_rules_lock(t) ==
  /\ at(t, "all_lock")
  /\ lock(t)
  /\ pre' = [pre EXCEPT ![t] = store]
  /\ pc' = [pc EXCEPT ![t] = "all_alloc"]
  /\ UNCHANGED <<store, panicked, entryVars, uid, rule, snap, idx, sret>>

\* a variant of get_all_rules_alloc whose iterator starts at the second set
get_all_rules_alloc_skip(t) ==
  /\ at(t, "all_alloc")
  /\ \E allocOk \in BOOLEAN :
       IF Len(store) > 0 /\ ~allocOk
       THEN panic(t) /\ UNCHANGED <<snap, idx>>
       ELSE /\ snap' = [snap EXCEPT ![t] = <<>>]
            /\ idx' = [idx EXCEPT ![t] = 2]
            /\ pc' = [pc EXCEPT ![t] = "all_loop"]
            /\ UNCHANGED panicked
  /\ UNCHANGED <<store, mutex, entryVars, uid, rule, pre, sret>>

\* Vec::with_capacity(store.len(), GFP_KERNEL).expect("get_all_rules failed")
get_all_rules_alloc(t) ==
  /\ at(t, "all_alloc")
  /\ \E allocOk \in BOOLEAN :
       IF Len(store) > 0 /\ ~allocOk
       THEN panic(t) /\ UNCHANGED <<snap, idx>>
       ELSE /\ snap' = [snap EXCEPT ![t] = <<>>]
            /\ idx' = [idx EXCEPT ![t] = 1]
            /\ pc' = [pc EXCEPT ![t] = "all_loop"]
            /\ UNCHANGED panicked
  /\ UNCHANGED <<store, mutex, entryVars, uid, rule, pre, sret>>

\* one turn of `for user_rule in store.iter()`, or the Ok(cloned_store) after it
get_all_rules_next(t) ==
  /\ at(t, "all_loop")
  /\ IF idx[t] > Len(store)
     THEN /\ sret' = [sret EXCEPT ![t] = Ok(snap[t])]
          /\ pc' = [pc EXCEPT ![t] = "all_unlock"]
          /\ UNCHANGED <<panicked, snap, idx>>
     ELSE \E allocOk \in BOOLEAN :
            LET c == UserRule_clone(store[idx[t]], allocOk)
            IN  IF c.panic
                THEN panic(t) /\ UNCHANGED <<snap, idx, sret>>
                ELSE /\ snap' = [snap EXCEPT ![t] = Append(@, c.val)]
                     /\ idx' = [idx EXCEPT ![t] = @ + 1]
                     /\ UNCHANGED <<panicked, pc, sret>>
  /\ UNCHANGED <<store, mutex, entryVars, uid, rule, pre>>

\* a variant of get_all_rules_unlock that returns the guard with the snapshot
get_all_rules_unlock_held(t) ==
  /\ at(t, "all_unlock")
  /\ pc' = [pc EXCEPT ![t] = "store_ret"]
  /\ UNCHANGED <<store, mutex, panicked, entryVars, uid, rule, pre, snap, idx, sret>>

get_all_rules_unlock(t) ==
  /\ at(t, "all_unlock")
  /\ unlock(t)
  /\ pc' = [pc EXCEPT ![t] = "store_ret"]
  /\ UNCHANGED <<store, panicked, entryVars, sret>>

\* the steps of the methods, whoever called them
UpdateStep(t) ==
  \/ add_rule_lock(t) \/ add_rule_find(t) \/ add_rule_push(t) \/ add_rule_unlock(t)
  \/ remove_rule_lock(t) \/ remove_rule_retain(t) \/ remove_rule_prune(t)
  \/ remove_rule_unlock(t)

GetByIdStep(t) ==
  \/ get_rules_by_id_lock(t) \/ get_rules_by_id_clone(t) \/ get_rules_by_id_unlock(t)

GetAllStep(t) ==
  \/ get_all_rules_lock(t) \/ get_all_rules_alloc(t) \/ get_all_rules_next(t)
  \/ get_all_rules_unlock(t)

StoreStep(t) == UpdateStep(t) \/ GetByIdStep(t) \/ GetAllStep(t)

\* ------------------------------------------------------------ IoctlArgument
IOCTL_MAGIC == 115

\* _IOC(dir, type, nr, size) of kernel::ioctl; _IOW has dir 1, _IOR has dir 2.
\* The u32 is kept as its four bit fields (dir: 2 bits, size: 14, type: 8, nr: 8).
IOC(dir, ty, nr, size) == <<dir, size, ty, nr>>

\* size_of::<u32>()
SIZE_U32 == 4

IOCTL_ADD_RULE == IOC(1, IOCTL_MAGIC, 1, SIZE_U32 + RULE_SIZE)
IOCTL_REMOVE_RULE == IOC(1, IOCTL_MAGIC, 2, SIZE_U32 + RULE_SIZE)
IOCTL_READ_RULES == IOC(2, IOCTL_MAGIC, 3, SIZE_U32 + RULE_BUFFER_SIZE)

\* a variant of to_errno that loses the error
to_errno_lost(e) == 0

\* Error::to_errno(): the kernel keeps an errno as a negative number
to_errno(e) == 0 - e

\* a variant of rule_len that is one byte short
rule_len_short(field) ==
  IF field[1] = 0 THEN 0
  ELSE IF \E i \in 1..Len(field) : field[i] = 0
  THEN (CHOOSE i \in 1..Len(field) :
          field[i] = 0 /\ \A j \in 1..(i - 1) : field[j] # 0) - 2
  ELSE RULE_SIZE - 1

\* self.rule.iter().position(|&byte| byte == 0).unwrap_or(RULE_SIZE)
rule_len(field) ==
  IF \E i \in 1..Len(field) : field[i] = 0
  THEN (CHOOSE i \in 1..Len(field) :
          field[i] = 0 /\ \A j \in 1..(i - 1) : field[j] # 0) - 1
  ELSE RULE_SIZE

\* CStr::from_bytes_with_nul: the bytes before the final NUL, or an Err when
\* the last byte is not NUL or a NUL stands before it
from_bytes_with_nul(v) ==
  IF Len(v) = 0 \/ v[Len(v)] # 0 THEN Err(EINVAL)
  ELSE IF HasNul(SubSeq(v, 1, Len(v) - 1)) THEN Err(EINVAL)
  ELSE Ok(SubSeq(v, 1, Len(v) - 1))

\* a variant of create_cstring_from_rule that does not validate the bytes
\* (from_utf8_unchecked for to_str)
create_cstring_from_rule_unchecked(field, fail) ==
  LET rule_with_null == SubSeq(field, 1, rule_len(field)) \o <<0>>
      cstr == from_bytes_with_nul(rule_with_null)
  IN  IF fail = 1 THEN Panic
      ELSE IF ~cstr.ok THEN Err(EINVAL)
      ELSE IF ~try_from_fmt(fmt_display(cstr.val), fail # 2).ok THEN Err(EINVAL)
      ELSE try_from_fmt(fmt_display(cstr.val), fail # 2)

\* IoctlArgument::create_cstring_from_rule on the rule field; allocation number
\* `fail` fails (0: none; 1: Vec::with_capacity; 2: CString::try_from_fmt)
create_cstring_from_rule(field, fail) ==
  LET rule_with_null == SubSeq(field, 1, rule_len(field)) \o <<0>>
      cstr == from_bytes_with_nul(rule_with_null)
  IN  IF fail = 1 THEN Panic
      ELSE IF ~cstr.ok THEN Err(EINVAL)
      ELSE IF ~to_str_ok(cstr.val) THEN Err(EINVAL)
      ELSE IF ~try_from_fmt(fmt_display(cstr.val), fail # 2).ok THEN Err(EINVAL)
      ELSE try_from_fmt(fmt_display(cstr.val), fail # 2)

\* ------------------------------------------------------- pretty_print_rules
RECURSIVE Dec(_)
\* {} of an unsigned integer: its decimal digits, no leading zero
Dec(n) == IF n < 10 THEN <<48 + n>> ELSE Dec(n \div 10) \o <<48 + (n % 10)>>

\* "---- UID: {} ----\n"
UidLine(u) ==
  <<45, 45, 45, 45, 32, 85, 73, 68, 58, 32>> \o Dec(u) \o <<32, 45, 45, 45, 45, 10>>

\* a variant of RuleLine that numbers the rules from 0 (enumerate() without + 1)
RuleLine_zero(i, r) ==
  <<82, 117, 108, 101, 32>> \o Dec(i - 1) \o <<58, 32>> \o r \o <<10>>

\* "Rule {}: " then the rule then "\n"
RuleLine(i, r) == <<82, 117, 108, 101, 32>> \o Dec(i) \o <<58, 32>> \o r \o <<10>>

\* a variant of FooterLine without its leading space
FooterLine_trimmed == <<45, 45, 45, 45, 32, 45, 45, 45, 45, 32, 45, 45, 45, 45, 10>>

\* " ---- ---- ----\n"
FooterLine == <<32, 45, 45, 45, 45, 32, 45, 45, 45, 45, 32, 45, 45, 45, 45, 10>>

RECURSIVE RuleLines(_, _)
RuleLines(rs, i) ==
  IF i > Len(rs) THEN <<>> ELSE RuleLine(i, rs[i]) \o RuleLines(rs, i + 1)

\* pretty_print_rules(rules, &mut output): what it appends to output, or
\* Err(ENOMEM) when an allocation fails
pretty_print_rules(ur, allocOk) ==
  IF ~allocOk THEN Err(ENOMEM)
  ELSE Ok(UidLine(ur.uid) \o RuleLines(ur.rules, 1) \o FooterLine)

\* a variant of Min that gives its first argument
Min_first(a, b) == a

\* a variant of Min that gives its second argument
Min_second(a, b) == b

Min(a, b) == IF a <= b THEN a ELSE b

\* ---------------------------------------------------------------- rust_ioctl
\* leave rust_ioctl with the value v
Return(t, v) ==
  /\ ret' = [ret EXCEPT ![t] = v]
  /\ pc' = [pc EXCEPT ![t] = "ret"]

\* a variant of is_null that takes every pointer for a good one
is_null_never(a) == FALSE

\* arg.is_null()
is_null(a) == a.null

\* a variant of read_raw that never faults
read_raw_always(a) == Ok(<<>>)

\* reader.read_raw(&mut buffer): the whole record is copied from user space,
\* or the copy faults
read_raw(a) == IF a.readable THEN Ok(<<>>) ELSE Err(EFAULT)

\* u32::to_le_bytes: a uid as it lies in the caller's memory
to_le_bytes(u) ==
  <<u % 256, (u \div 256) % 256, (u \div 65536) % 256, (u \div 16777216) % 256>>

\* the rules_buffer the caller passes with a READ_RULES request: RULE_BUFFER_SIZE
\* bytes of its own, none of which occurs in a dump
UserBuffer == Fill(RULE_BUFFER_SIZE, 170)

\* the caller's IoctlReadArgument { uid, rules_buffer } (repr(C): the uid at
\* offset 0, the buffer at offset size_of::<u32>())
UserRecord(u) == to_le_bytes(u) \o UserBuffer

\* a variant of write_slice that ends the data with a NUL
write_slice_terminated(mem, pos, data) ==
  [i \in 1..Len(mem) |->
     IF i > pos /\ i <= pos + Len(data) THEN data[i - pos]
     ELSE IF i = pos + Len(data) + 1 THEN 0
     ELSE mem[i]]

\* UserSlice::new(ptr, len).writer().write_slice(data): the bytes of data
\* stand in the caller's memory from offset `pos` of the record on, the rest
\* of the memory is not touched
write_slice(mem, pos, data) ==
  [i \in 1..Len(mem) |-> IF i > pos /\ i <= pos + Len(data) THEN data[i - pos] ELSE mem[i]]

\* the arm IOCTL_ADD_RULE | IOCTL_REMOVE_RULE of `match cmd`
is_update(c) == c \in {IOCTL_ADD_RULE, IOCTL_REMOVE_RULE}

\* a variant of is_read that is the arm `_`: every other command is a read
is_read_any(c) == TRUE

\* the arm IOCTL_READ_RULES of `match cmd`
is_read(c) == c = IOCTL_READ_RULES

\* rust_ioctl up to the call of the store method: the null check, the copy of
\* the argument from user space and, for add and remove, the decoding of the rule
rust_ioctl_enter(t, c, a, u, field) ==
  /\ at(t, "idle")
  /\ frame' = [frame EXCEPT ![t] = "ioctl"]
  /\ cmd' = [cmd EXCEPT ![t] = c]
  /\ arg' = [arg EXCEPT ![t] = a]
  /\ UNCHANGED <<store, mutex, pre, snap, idx, sret, uout, fileVars>>
  /\ umem' = [umem EXCEPT ![t] =
       IF ~is_null(a) /\ ~is_update(c) /\ is_read(c) /\ read_raw(a).ok
       THEN UserRecord(u) ELSE @]
  /\ IF is_null(a)
     THEN Return(t, 0 - to_errno(EINVAL)) /\ UNCHANGED <<panicked, uid, rule, urec>>
     ELSE IF is_update(c)
     THEN IF ~read_raw(a).ok
          THEN Return(t, 0 - to_errno(EFAULT)) /\ UNCHANGED <<panicked, uid, rule, urec>>
          ELSE /\ urec' = [urec EXCEPT ![t] = Rec(u, field)]
               /\ \E fail \in 0..2 :
                    LET rule_str == create_cstring_from_rule(field, fail)
                    IN  IF rule_str.panic
                        THEN panic(t) /\ UNCHANGED <<ret, uid, rule>>
                        ELSE IF ~rule_str.ok
                        THEN Return(t, 0 - to_errno(EINVAL))
                             /\ UNCHANGED <<panicked, uid, rule>>
                        ELSE /\ uid' = [uid EXCEPT ![t] = u]
                             /\ rule' = [rule EXCEPT ![t] = rule_str.val]
                             /\ pc' = [pc EXCEPT ![t] =
                                  IF c = IOCTL_ADD_RULE THEN "add_lock" ELSE "rem_lock"]
                             /\ UNCHANGED <<panicked, ret>>
     ELSE IF is_read(c)
     THEN IF ~read_raw(a).ok
          THEN Return(t, 0 - to_errno(EFAULT)) /\ UNCHANGED <<panicked, uid, rule, urec>>
          ELSE /\ urec' = [urec EXCEPT ![t] = Rec(u, <<>>)]
               /\ uid' = [uid EXCEPT ![t] = u]
               /\ pc' = [pc EXCEPT ![t] = "get_lock"]
               /\ UNCHANGED <<panicked, ret, rule>>
     ELSE Return(t, 0 - to_errno(EINVAL)) /\ UNCHANGED <<panicked, uid, rule, urec>>

\* rust_ioctl after add_rule or remove_rule returned
rust_ioctl_after_update(t) ==
  /\ at(t, "store_ret")
  /\ frame[t] = "ioctl"
  /\ is_update(cmd[t])
  /\ Return(t, IF sret[t].ok THEN 0 ELSE 0 - to_errno(EFAULT))
  /\ sret' = [sret EXCEPT ![t] = NoResult]
  /\ UNCHANGED <<store, mutex, panicked, frame, cmd, arg, urec, uout, umem, uid, rule,
                 pre, snap, idx, fileVars>>

\* rust_ioctl after get_rules_by_id returned: the rules are rendered, cut to
\* the size of rules_buffer and written to the caller's buffer
rust_ioctl_after_read(t) ==
  /\ at(t, "store_ret")
  /\ frame[t] = "ioctl"
  /\ ~is_update(cmd[t])
  /\ UNCHANGED <<store, mutex, panicked, frame, cmd, arg, urec, uid, rule, pre, snap, idx,
                 fileVars>>
  /\ IF ~sret[t].ok
     THEN /\ Return(t, 0 - to_errno(EINVAL))
          /\ sret' = [sret EXCEPT ![t] = NoResult]
          /\ UNCHANGED <<uout, umem>>
     ELSE \E allocOk \in BOOLEAN :
            LET output == IF sret[t].val = <<>> THEN Ok(<<>>)
                          ELSE pretty_print_rules(sret[t].val[1], allocOk)
                output_len == Min(Len(output.val), RULE_BUFFER_SIZE)
            IN  /\ sret' = [sret EXCEPT ![t] = output]
                /\ IF ~output.ok
                   THEN Return(t, to_errno(output.err)) /\ UNCHANGED <<uout, umem>>
                   ELSE IF ~arg[t].writable /\ output_len > 0
                   THEN Return(t, 0 - to_errno(EFAULT)) /\ UNCHANGED <<uout, umem>>
                   ELSE /\ Return(t, 0)
                        /\ uout' = [uout EXCEPT ![t] = SubSeq(output.val, 1, output_len)]
                        /\ umem' = [umem EXCEPT ![t] =
                             write_slice(@, SIZE_U32, SubSeq(output.val, 1, output_len))]

\* the system call returns to the caller
rust_ioctl_return(t) ==
  /\ at(t, "ret")
  /\ frame[t] = "ioctl"
  /\ Idle(t)
  /\ UNCHANGED <<store, mutex, panicked>>

\* ----------------------------------------------------------- module init
\* init_rules(): the default rule of the default user, through Rule::new,
\* Rule::clone and add_rule
init_rules(s) ==
  add_rule(s, INITIAL_UID, Rule_clone(Rule_new(fmt_display(HelloRust)).val, TRUE).val)

\* ----------------------------------------------------------------- rust_read
RECURSIVE Dump(_)
\* `for user_rule in rules { pretty_print_rules(user_rule, &mut output) }` when
\* no allocation fails: the renders of the sets, one after the other
Dump(rules) ==
  IF rules = <<>> THEN <<>>
  ELSE pretty_print_rules(Head(rules), TRUE).val \o Dump(Tail(rules))

\* a variant of render_all that renders the registry of module init instead
\* of the sets it is given
render_all_initial(rules, fail) ==
  IF fail # 0 THEN Err(ENOMEM) ELSE Ok(Dump(init_rules(<<>>)))

\* a variant of render_all whose output Vec is kept from one call to the next:
\* the render comes after the bytes the caller's earlier reads delivered
render_all_kept(rules, fail) ==
  IF fail # 0 THEN Err(ENOMEM)
  ELSE Ok(hist[CHOOSE t \in Callers : pc[t] = "store_ret" /\ frame[t] = "read"].got
            \o Dump(rules))

\* a variant of render_all that renders the sets from the last to the first
render_all_backwards(rules, fail) ==
  IF fail # 0 THEN Err(ENOMEM)
  ELSE Ok(Dump([i \in 1..Len(rules) |-> rules[Len(rules) + 1 - i]]))

\* the loop of rust_read over the cloned sets; the render of set number `fail`
\* runs out of memory (0: none does)
render_all(rules, fail) == IF fail # 0 THEN Err(ENOMEM) ELSE Ok(Dump(rules))

\* a variant of at_eof that never sees the end
at_eof_never(current_offset, output) == FALSE

\* if current_offset >= output.len() { return 0 }
at_eof(current_offset, output) == current_offset >= Len(output)

\* a variant of new_offset that skips one byte more
new_offset_skip(current_offset, len) == current_offset + len + 1

\* let new_offset = current_offset + len
new_offset(current_offset, len) == current_offset + len

\* rust_read is called with a user buffer a, a count n and a pointer to an
\* offset whose value is o: the value the last read left, or one the caller set
rust_read_enter(t, a, n, o) ==
  /\ at(t, "idle")
  /\ frame' = [frame EXCEPT ![t] = "read"]
  /\ arg' = [arg EXCEPT ![t] = a]
  /\ count' = [count EXCEPT ![t] = n]
  /\ offset' = [offset EXCEPT ![t] = o]
  /\ hist' = [hist EXCEPT ![t] =
       IF o = offset[t] THEN @ ELSE IF o = 0 THEN NewHist ELSE NoHist]
  /\ pc' = [pc EXCEPT ![t] = "all_lock"]
  /\ UNCHANGED <<store, mutex, panicked, uid, rule, pre, snap, idx, sret, cmd, urec, ret,
                 uout, umem>>

\* rust_read after get_all_rules returned: the dump is rendered, the slice at
\* the offset is written to the user buffer and the offset is moved
rust_read_after(t) ==
  /\ at(t, "store_ret")
  /\ frame[t] = "read"
  /\ UNCHANGED <<store, mutex, panicked, frame, cmd, arg, urec, umem, count, uid, rule,
                 pre, snap, idx>>
  /\ IF ~sret[t].ok
     THEN /\ Return(t, 0 - to_errno(EFAULT))
          /\ hist' = [hist EXCEPT ![t] = NoHist]
          /\ UNCHANGED <<sret, uout, offset>>
     ELSE \E fail \in 0..Len(sret[t].val) :
            LET rules == sret[t].val
                output == render_all(rules, fail)
                current_offset == offset[t]
                len == Min(count[t], Len(output.val) - current_offset)
                data == SubSeq(output.val, current_offset + 1, current_offset + len)
                h == hist[t]
                stale == h.started /\ h.reg # rules
            IN  /\ sret' = [sret EXCEPT ![t] = output]
                /\ IF ~output.ok
                   THEN /\ Return(t, to_errno(output.err))
                        /\ hist' = [hist EXCEPT ![t] = NoHist]
                        /\ UNCHANGED <<uout, offset>>
                   ELSE IF at_eof(current_offset, output.val) \/ len = 0
                   THEN /\ Return(t, 0)
                        /\ hist' = [hist EXCEPT ![t] =
                             IF ~h.clean THEN h
                             ELSE IF stale THEN StaleHist
                             ELSE Hist(TRUE, rules, h.got, TRUE)]
                        /\ UNCHANGED <<uout, offset>>
                   ELSE IF arg[t].writable
                   THEN /\ uout' = [uout EXCEPT ![t] = data]
                        /\ offset' = [offset EXCEPT ![t] = new_offset(current_offset, len)]
                        /\ Return(t, len)
                        /\ hist' = [hist EXCEPT ![t] =
                             IF ~h.clean THEN h
                             ELSE IF stale THEN StaleHist
                             ELSE Hist(TRUE, rules, h.got \o data, TRUE)]
                   ELSE /\ Return(t, 0 - to_errno(EFAULT))
                        /\ hist' = [hist EXCEPT ![t] = NoHist]
                        /\ UNCHANGED <<uout, offset>>

\* the system call returns to the caller
rust_read_return(t) ==
  /\ at(t, "ret")
  /\ frame[t] = "read"
  /\ Idle(t)
  /\ UNCHANGED <<store, mutex, panicked>>

\* --------------------------------------------- in-kernel callers of the store
\* The arguments a caller of the store methods passes: any uid and any CString,
\* also one longer than RULE_SIZE (add_rule takes a CString, not a Rule).
StoreRules == {<<97>>, <<98>>, Fill(RULE_SIZE + 1, 120)}

\* the one rule the concurrent callers add and remove
ConcRules == {<<97>>}

Call(t, entry, u, r) ==
  /\ at(t, "idle")
  /\ pc' = [pc EXCEPT ![t] = entry]
  /\ frame' = [frame EXCEPT ![t] = "store"]
  /\ uid' = [uid EXCEPT ![t] = u]
  /\ rule' = [rule EXCEPT ![t] = r]
  /\ UNCHANGED <<store, mutex, panicked, pre, snap, idx, sret, cmd, arg, urec, ret, uout,
                 umem, fileVars>>

call_add_rule(t, rules, max) ==
  /\ Room(max)
  /\ \E u \in Uids, r \in rules : Call(t, "add_lock", u, r)

call_remove_rule(t, rules) == \E u \in Uids, r \in rules : Call(t, "rem_lock", u, r)

call_get_rules_by_id(t) == \E u \in Uids : Call(t, "get_lock", u, <<>>)

call_get_all_rules(t) == Call(t, "all_lock", 0, <<>>)

\* a variant of store_return where dropping the Result frees rules of the store
store_return_alias(t) ==
  /\ at(t, "store_ret")
  /\ frame[t] = "store"
  /\ Idle(t)
  /\ store' = IF sret[t].ok /\ sret[t].val # <<>> THEN <<>> ELSE store
  /\ UNCHANGED <<mutex, panicked>>

\* the caller takes the Result and goes on
store_return(t) ==
  /\ at(t, "store_ret")
  /\ frame[t] = "store"
  /\ Idle(t)
  /\ UNCHANGED <<store, mutex, panicked>>

InitCallers ==
  /\ mutex = NoOwner
  /\ panicked = FALSE
  /\ pc = [t \in Callers |-> "idle"]
  /\ frame = [t \in Callers |-> "none"]
  /\ uid = [t \in Callers |-> 0]
  /\ rule = [t \in Callers |-> <<>>]
  /\ pre = [t \in Callers |-> <<>>]
  /\ snap = [t \in Callers |-> <<>>]
  /\ idx = [t \in Callers |-> 0]
  /\ sret = [t \in Callers |-> NoResult]
  /\ cmd = [t \in Callers |-> NoCmd]
  /\ arg = [t \in Callers |-> NoArg]
  /\ urec = [t \in Callers |-> NoRec]
  /\ ret = [t \in Callers |-> 0]
  /\ uout = [t \in Callers |-> <<>>]
  /\ umem = [t \in Callers |-> <<>>]
  /\ offset = [t \in Callers |-> 0]
  /\ count = [t \in Callers |-> 0]
  /\ hist = [t \in Callers |-> NewHist]

\* UserRuleStore::new(): an empty Vec behind a free mutex
InitStore == store = <<>> /\ InitCallers

\* one thread calling the store methods with any arguments
NextStore ==
  \E t \in {1} :
    \/ call_add_rule(t, StoreRules, MaxRules)
    \/ call_remove_rule(t, StoreRules)
    \/ call_get_rules_by_id(t)
    \/ call_get_all_rules(t)
    \/ StoreStep(t)
    \/ store_return(t)

SpecStore == InitStore /\ [][NextStore]_vars

\* NCallers threads calling the store methods concurrently
NextConc ==
  \E t \in Callers :
    \/ call_add_rule(t, ConcRules, MaxConcRules)
    \/ call_remove_rule(t, ConcRules)
    \/ call_get_rules_by_id(t)
    \/ call_get_all_rules(t)
    \/ StoreStep(t)
    \/ store_return(t)

SpecConc == InitStore /\ [][NextConc]_vars

\* The same callers under a scheduler that lets every thread run and a mutex
\* that is fair: a method that can take a step again and again takes it (the
\* lock is granted to a waiter that finds the mutex free again and again),
\* and a caller that can return does.
FairConc ==
  \A t \in Callers : SF_vars(StoreStep(t)) /\ WF_vars(store_return(t))

SpecLive == InitStore /\ [][NextConc]_vars /\ FairConc

\* ------------------------------------------------ callers of the device
\* a rule field of RULE_SIZE bytes: the bytes b, then NULs
Field(b) == b \o Fill(RULE_SIZE - Len(b), 0)

\* the rule fields user space sends: a short rule, a field with no NUL at all,
\* an empty rule, bytes that are not UTF-8, a rule with bytes after its NUL,
\* and the default rule
Fields ==
  { Field(<<97>>), Fill(RULE_SIZE, 120), Field(<<>>), Field(<<255>>),
    Field(<<97, 0, 98>>), Field(HelloRust) }

\* the commands user space sends: the three of the device, and the
\* number IOCTL_READ_RULES had in an earlier version (nr 2)
Cmds ==
  { IOCTL_ADD_RULE, IOCTL_REMOVE_RULE, IOCTL_READ_RULES,
    IOC(2, IOCTL_MAGIC, 2, SIZE_U32 + RULE_BUFFER_SIZE) }

Args == {NoArg} \cup {Arg(FALSE, r, w) : r \in BOOLEAN, w \in BOOLEAN}

\* the module is loaded: the store is built and init_rules has run
Init == store = init_rules(<<>>) /\ InitCallers

\* one thread of user space issuing control requests
Next ==
  \E t \in {1} :
    \/ \E c \in Cmds, a \in Args, u \in Uids, field \in Fields :
         /\ c = IOCTL_ADD_RULE => Room(MaxIoctlRules)
         /\ rust_ioctl_enter(t, c, a, u, field)
    \/ UpdateStep(t)
    \/ GetByIdStep(t)
    \/ rust_ioctl_after_update(t)
    \/ rust_ioctl_after_read(t)
    \/ rust_ioctl_return(t)

Spec == Init /\ [][Next]_vars

\* ------------------------------------------------- readers of the device
\* the rules the reading caller adds and removes between its reads
ReadFields == {Field(<<97>>), Field(HelloRust)}

\* the counts and the offsets a reader passes besides the offset its last
\* read left: an empty buffer, a few bytes, more than any dump
ReadCounts == {0, 10, RULE_BUFFER_SIZE}
ReadOffsets == {0, 30, RULE_BUFFER_SIZE}

\* the user buffers of a read: one that can be written and one that cannot
ReadArgs == {Arg(FALSE, TRUE, TRUE), Arg(FALSE, TRUE, FALSE)}

\* one thread of user space that reads the device and, between its reads,
\* adds and removes rules
NextRead ==
  \E t \in {1} :
    \/ \E c \in {IOCTL_ADD_RULE, IOCTL_REMOVE_RULE}, u \in Uids, field \in ReadFields :
         /\ c = IOCTL_ADD_RULE => Room(MaxReadRules)
         /\ rust_ioctl_enter(t, c, Arg(FALSE, TRUE, TRUE), u, field)
    \/ UpdateStep(t)
    \/ rust_ioctl_after_update(t)
    \/ rust_ioctl_return(t)
    \/ \E a \in ReadArgs, n \in ReadCounts, o \in ReadOffsets \cup {offset[t]} :
         rust_read_enter(t, a, n, o)
    \/ GetAllStep(t)
    \/ rust_read_after(t)
    \/ rust_read_return(t)

SpecRead == Init /\ [][NextRead]_vars

\* ------------------------------------------- one caller of the whole device
\* the block a caller reads by: shorter than the dump of two rules
DeviceCounts == {30}

\* the rule field of the caller's control requests: "a" and a terminator
DeviceFields == {Field(<<97>>)}

\* one thread of user space that issues control requests of every kind, good
\* and bad, and reads the device from offset 0 or from where its last read
\* stopped
NextDevice ==
  \E t \in {1} :
    \/ \E c \in Cmds, a \in Args, u \in Uids, field \in DeviceFields :
         /\ c = IOCTL_ADD_RULE => Room(MaxDeviceRules)
         /\ rust_ioctl_enter(t, c, a, u, field)
    \/ UpdateStep(t)
    \/ GetByIdStep(t)
    \/ rust_ioctl_after_update(t)
    \/ rust_ioctl_after_read(t)
    \/ rust_ioctl_return(t)
    \/ \E a \in ReadArgs, n \in DeviceCounts, o \in {0, offset[t]} :
         rust_read_enter(t, a, n, o)
    \/ GetAllStep(t)
    \/ rust_read_after(t)
    \/ rust_read_return(t)

SpecDevice == Init /\ [][NextDevice]_vars

\* ----------------------------------------- a reader and a writer, together
\* the thread that reads the device and queries it
Reader == 1

\* the thread that adds and removes rules
Writer == 2

\* two threads of user space on the one device: the steps of each interleave
\* with the steps of the other, the store's mutex alone ordering them
NextShared ==
  \/ \E a \in {Arg(FALSE, TRUE, TRUE)}, n \in {RULE_BUFFER_SIZE}, o \in {0, 30} :
       rust_read_enter(Reader, a, n, o)
  \/ GetAllStep(Reader)
  \/ rust_read_after(Reader)
  \/ rust_read_return(Reader)
  \/ \E u \in Uids :
       rust_ioctl_enter(Reader, IOCTL_READ_RULES, Arg(FALSE, TRUE, TRUE), u, <<>>)
  \/ GetByIdStep(Reader)
  \/ rust_ioctl_after_read(Reader)
  \/ rust_ioctl_return(Reader)
  \/ \E c \in {IOCTL_ADD_RULE, IOCTL_REMOVE_RULE}, u \in Uids, field \in {Field(<<97>>)} :
       /\ c = IOCTL_ADD_RULE => Room(MaxSharedRules)
       /\ rust_ioctl_enter(Writer, c, Arg(FALSE, TRUE, TRUE), u, field)
  \/ UpdateStep(Writer)
  \/ rust_ioctl_after_update(Writer)
  \/ rust_ioctl_return(Writer)

SpecShared == Init /\ [][NextShared]_vars

\* ------------------------------------------- a caller with arbitrary input
\* the rule fields of a hostile caller: no zero byte at all, a leading zero
\* byte, bytes that are not UTF-8, and a character of two bytes
InputFields == {Fill(RULE_SIZE, 120), Field(<<>>), Field(<<255>>), Field(<<195, 169>>)}

\* the offsets it reads at: the start, and far beyond any dump
InputOffsets == {0, RULE_BUFFER_SIZE}

\* its control requests <<cmd, arg, uid, rule field>>: every command and
\* argument with such a rule field for the uid of module init, and the add
\* and the remove of the two-byte character for a second uid, whose set the
\* remove empties
InputRequests ==
  (Cmds \X Args \X {INITIAL_UID} \X InputFields)
    \cup ({IOCTL_ADD_RULE, IOCTL_REMOVE_RULE} \X {Arg(FALSE, TRUE, TRUE)}
             \X {2002} \X {Field(<<195, 169>>)})

\* one thread of user space that sends these requests and reads the device at
\* these offsets
NextInput ==
  \E t \in {1} :
    \/ \E r \in InputRequests :
         /\ r[1] = IOCTL_ADD_RULE => Room(MaxInputRules)
         /\ rust_ioctl_enter(t, r[1], r[2], r[3], r[4])
    \/ UpdateStep(t)
    \/ GetByIdStep(t)
    \/ rust_ioctl_after_update(t)
    \/ rust_ioctl_after_read(t)
    \/ rust_ioctl_return(t)
    \/ \E o \in InputOffsets :
         rust_read_enter(t, Arg(FALSE, TRUE, TRUE), RULE_BUFFER_SIZE, o)
    \/ GetAllStep(t)
    \/ rust_read_after(t)
    \/ rust_read_return(t)

SpecInput == Init /\ [][NextInput]_vars

\* ------------------------------------------- a caller that reads by pages
\* the requests that turn the registry of module init into one where uid 1001
\* has the rule "a" and uid 2002 the rules "b" and "c"
PagedRequests ==
  { <<IOCTL_ADD_RULE, INITIAL_UID, Field(<<97>>)>>,
    <<IOCTL_REMOVE_RULE, INITIAL_UID, Field(HelloRust)>>,
    <<IOCTL_ADD_RULE, 2002, Field(<<98>>)>>,
    <<IOCTL_ADD_RULE, 2002, Field(<<99>>)>> }

\* the count of every read of this caller
PagedCount == 10

\* one thread of user space that issues these requests in any order and
\* reads the device PagedCount bytes at a time, from offset 0 or from where
\* its last read stopped
NextPaged ==
  \E t \in {1} :
    \/ \E q \in PagedRequests :
         /\ q[1] = IOCTL_ADD_RULE => Room(MaxPagedRules)
         /\ rust_ioctl_enter(t, q[1], Arg(FALSE, TRUE, TRUE), q[2], q[3])
    \/ UpdateStep(t)
    \/ rust_ioctl_after_update(t)
    \/ rust_ioctl_return(t)
    \/ \E o \in {0, offset[t]} :
         rust_read_enter(t, Arg(FALSE, TRUE, TRUE), PagedCount, o)
    \/ GetAllStep(t)
    \/ rust_read_after(t)
    \/ rust_read_return(t)

SpecPaged == Init /\ [][NextPaged]_vars

\* ------------------------------------------- a caller with three uids
\* the uids and the rules of a caller that creates and prunes sets
OrderUids == {INITIAL_UID, 2002, 3003}
OrderRules == {<<97>>, fmt_display(HelloRust)}

\* one thread that, after module init, adds and removes rules of three uids
NextOrder ==
  \E t \in {1} :
    \/ \E u \in OrderUids, r \in OrderRules :
         /\ Room(MaxOrderRules)
         /\ Call(t, "add_lock", u, r)
    \/ \E u \in OrderUids, r \in OrderRules : Call(t, "rem_lock", u, r)
    \/ UpdateStep(t)
    \/ store_return(t)

SpecOrder == Init /\ [][NextOrder]_vars

\* ------------------------------------------- callers with many long rules
\* one thread of user space that adds rules of RULE_SIZE bytes, removes them
\* and queries the rules of a uid
NextQuery ==
  \E t \in {1} :
    \/ \E c \in {IOCTL_ADD_RULE, IOCTL_REMOVE_RULE, IOCTL_READ_RULES},
          a \in Args, u \in Uids :
         /\ c = IOCTL_ADD_RULE => Room(MaxQueryRules)
         /\ rust_ioctl_enter(t, c, a, u, Fill(RULE_SIZE, 120))
    \/ UpdateStep(t)
    \/ GetByIdStep(t)
    \/ rust_ioctl_after_update(t)
    \/ rust_ioctl_after_read(t)
    \/ rust_ioctl_return(t)

SpecQuery == Init /\ [][NextQuery]_vars

\* ==================================================================== claims
In(x, seq) == \E k \in 1..Len(seq) : seq[k] = x

\* the rules of the set of u in registry s, <<>> when u has no set
RulesOf(s, u) ==
  IF \E i \in 1..Len(s) : s[i].uid = u
  THEN (CHOOSE ur \in {s[i] : i \in 1..Len(s)} : ur.uid = u).rules
  ELSE <<>>

HasSet(s, u) == \E i \in 1..Len(s) : s[i].uid = u

NoEmptySet(s) == \A i \in 1..Len(s) : s[i].rules # <<>>

\* caller t has finished the body of the method and still owns the mutex
Done(t, label) == pc[t] = label

InCS(t) ==
  pc[t] \in {"add_find", "add_push", "add_unlock", "rem_retain", "rem_prune",
             "rem_unlock", "get_clone", "get_unlock", "all_alloc", "all_loop",
             "all_unlock"}

OutOfCS(t) ==
  pc[t] \in {"idle", "add_lock", "rem_lock", "get_lock", "all_lock", "store_ret"}

\* C1: every call takes effect atomically on the registry it found when it
\* acquired the mutex: when its body is done the registry is that registry
\* with the whole add or remove applied (or untouched, for a failed add and
\* for the queries), and a query's result is that registry (or the set of the
\* uid in it); no query result holds a set with zero rules.
C1_Linearizable ==
  \A t \in Callers :
    /\ Done(t, "add_unlock") =>
         store = IF sret[t].ok THEN add_rule(pre[t], uid[t], rule[t]) ELSE pre[t]
    /\ Done(t, "rem_unlock") => store = remove_rule(pre[t], uid[t], rule[t])
    /\ Done(t, "get_unlock") =>
         /\ store = pre[t]
         /\ sret[t] = get_rules_by_id(pre[t], uid[t], TRUE)
    /\ Done(t, "all_unlock") => store = pre[t] /\ sret[t] = Ok(pre[t])
    /\ (Done(t, "get_unlock") \/ Done(t, "all_unlock")) => NoEmptySet(sret[t].val)

\* a get_all_rules that cloned two sets while another caller waited to remove
C1_Witness ==
  \E t, t2 \in Callers :
    /\ Done(t, "all_unlock") /\ Len(sret[t].val) = 2
    /\ pc[t2] = "rem_lock"

\* C2: at most one caller is between lock() and the end of its method; a
\* caller in that span owns the mutex; a caller that has returned (with Ok or
\* with Err), or has not locked yet, does not own it.
C2_MutexExclusive ==
  /\ \A t1, t2 \in Callers : InCS(t1) /\ InCS(t2) => t1 = t2
  /\ \A t \in Callers : InCS(t) => mutex = t
  /\ \A t \in Callers : OutOfCS(t) => mutex # t

\* a caller has returned an Err and another caller is inside its method
C2_Witness ==
  \E t, t2 \in Callers :
    /\ pc[t] = "store_ret" /\ ~sret[t].ok
    /\ InCS(t2) /\ mutex = t2

\* C3: between calls, and whenever a method's body is done, no set of the
\* registry is empty; a remove_rule that deleted every rule of its uid leaves
\* no set for that uid, so that get_rules_by_id reports it absent.
C3_NoEmptySet ==
  /\ (mutex = NoOwner \/ \E t \in Callers :
        pc[t] \in {"add_unlock", "rem_unlock", "get_unlock", "all_unlock"})
       => NoEmptySet(store)
  /\ \A t \in Callers :
       (/\ Done(t, "rem_unlock")
        /\ HasSet(pre[t], uid[t])
        /\ \A k \in 1..Len(RulesOf(pre[t], uid[t])) : RulesOf(pre[t], uid[t])[k] = rule[t])
       => /\ ~HasSet(store, uid[t])
          /\ get_rules_by_id(store, uid[t], TRUE) = Err(EINVAL)

\* a remove_rule deleted the last rules of a uid while another uid has a set
C3_Witness ==
  \E t \in Callers :
    /\ Done(t, "rem_unlock")
    /\ HasSet(pre[t], uid[t]) /\ ~HasSet(store, uid[t])
    /\ Len(store) = 1

\* C4: the registry never holds two sets with the same uid.
C4_UniqueUid ==
  \A i, j \in 1..Len(store) : store[i].uid = store[j].uid => i = j

\* two callers added for the same new uid; the first has pushed the new set
C4_Witness ==
  \E t, t2 \in Callers :
    /\ Done(t, "add_unlock") /\ sret[t].ok /\ ~HasSet(pre[t], uid[t])
    /\ pc[t2] = "add_lock" /\ uid[t2] = uid[t]

\* C5: a successful add_rule(u, r) appends r to the set of u when there is
\* one, and appends a new set holding r alone otherwise; every other set is
\* as before, and the registry holds exactly one rule more.
C5_AddAppends ==
  \A t \in Callers :
    (Done(t, "add_unlock") /\ sret[t].ok) =>
      LET p == pre[t]
          u == uid[t]
          r == rule[t]
      IN  /\ TotalRules(store) = TotalRules(p) + 1
          /\ IF HasSet(p, u)
             THEN /\ Len(store) = Len(p)
                  /\ \A j \in 1..Len(p) :
                       /\ store[j].uid = p[j].uid
                       /\ store[j].rules =
                            IF p[j].uid = u THEN p[j].rules \o <<r>> ELSE p[j].rules
             ELSE /\ Len(store) = Len(p) + 1
                  /\ SubSeq(store, 1, Len(p)) = p
                  /\ store[Len(store)] = UserRule(u, <<r>>)

\* a successful add of a rule the uid already has (a duplicate)
C5_Witness ==
  \E t \in Callers :
    /\ Done(t, "add_unlock") /\ sret[t].ok
    /\ In(rule[t], RulesOf(pre[t], uid[t]))

\* C6: remove_rule(u, r) leaves of the set of u exactly the rules that differ
\* from r, in their order (no set when none is left), and leaves the other
\* sets, and the order of the sets, as they were.
C6_RemoveExact ==
  \A t \in Callers :
    Done(t, "rem_unlock") =>
      LET p == pre[t]
          u == uid[t]
          r == rule[t]
          left == SelectSeq(RulesOf(p, u), LAMBDA x : x # r)
      IN  /\ SelectSeq(store, LAMBDA ur : ur.uid # u) = SelectSeq(p, LAMBDA ur : ur.uid # u)
          /\ RulesOf(store, u) = left
          /\ HasSet(store, u) <=> left # <<>>
          /\ [i \in 1..Len(store) |-> store[i].uid]
               = SelectSeq([i \in 1..Len(p) |-> p[i].uid],
                           LAMBDA v : v # u \/ left # <<>>)

\* a remove_rule deleted two equal rules and kept a third one
C6_Witness ==
  \E t \in Callers :
    /\ Done(t, "rem_unlock")
    /\ Len(RulesOf(pre[t], uid[t])) = 3
    /\ Len(RulesOf(store, uid[t])) = 1

\* C7: remove_rule returns Ok; it leaves the registry as it was when the uid
\* has no set or its set has no rule equal to r; and a second remove_rule
\* with the same arguments would leave the registry as the first left it.
C7_RemoveIdempotent ==
  \A t \in Callers :
    Done(t, "rem_unlock") =>
      /\ sret[t].ok
      /\ ~In(rule[t], RulesOf(pre[t], uid[t])) => store = pre[t]
      /\ remove_rule(store, uid[t], rule[t]) = store

\* a remove_rule of a rule its uid does not have, the uid having a set
C7_Witness ==
  \E t \in Callers :
    /\ Done(t, "rem_unlock")
    /\ HasSet(pre[t], uid[t])
    /\ ~In(rule[t], RulesOf(pre[t], uid[t]))

\* C8 as stated: after any successful add_rule(u, r), remove_rule(u, r)
\* gives back the registry the add found.
C8_AddRemoveInverse ==
  \A t \in Callers :
    (Done(t, "add_unlock") /\ sret[t].ok) =>
      remove_rule(store, uid[t], rule[t]) = pre[t]

\* C8, amended: after a successful add_rule(u, r) of a rule that u did not
\* have yet, remove_rule(u, r) gives back the registry the add found.
C8_AddRemoveInverseFresh ==
  \A t \in Callers :
    (Done(t, "add_unlock") /\ sret[t].ok /\ ~In(rule[t], RulesOf(pre[t], uid[t]))) =>
      remove_rule(store, uid[t], rule[t]) = pre[t]

\* a successful add of the first rule of a uid, another uid having a set
C8_Witness ==
  \E t \in Callers :
    /\ Done(t, "add_unlock") /\ sret[t].ok
    /\ ~HasSet(pre[t], uid[t])
    /\ Len(pre[t]) = 1

\* C9: add_rule with a rule longer than RULE_SIZE returns an Err and leaves
\* the registry as it was.
C9_OversizeRejected ==
  \A t \in Callers :
    (Done(t, "add_unlock") /\ Len(rule[t]) > RULE_SIZE) =>
      ~sret[t].ok /\ store = pre[t]

\* C10: no rule stored through ADD_RULE and REMOVE_RULE requests, starting
\* from the seeded registry, is longer than RULE_SIZE bytes.
C10_RuleLengthBounded ==
  \A i \in 1..Len(store) :
    \A k \in 1..Len(store[i].rules) : Len(store[i].rules[k]) <= RULE_SIZE

\* a rule of exactly RULE_SIZE bytes is stored beside the seeded rule
C10_Witness ==
  /\ \E i \in 1..Len(store) :
       \E k \in 1..Len(store[i].rules) : Len(store[i].rules[k]) = RULE_SIZE
  /\ In(HelloRust, RulesOf(store, INITIAL_UID))

\* C11: a get_rules_by_id(u) that found a set for u returns Ok with one
\* UserRule: the uid u and the rules the set of u had when the call locked the
\* store, the same values in the same order, as many as there were.
C11_GetByIdExact ==
  \A t \in Callers :
    (Done(t, "get_unlock") /\ HasSet(pre[t], uid[t])) =>
      /\ sret[t].ok
      /\ Len(sret[t].val) = 1
      /\ sret[t].val[1].uid = uid[t]
      /\ Len(sret[t].val[1].rules) = Len(RulesOf(pre[t], uid[t]))
      /\ \A k \in 1..Len(RulesOf(pre[t], uid[t])) :
           sret[t].val[1].rules[k] = RulesOf(pre[t], uid[t])[k]

\* a get_rules_by_id returned three rules, the first two of them different,
\* while another uid has a set too
C11_Witness ==
  \E t \in Callers :
    /\ Done(t, "get_unlock") /\ sret[t].ok
    /\ Len(sret[t].val[1].rules) = 3
    /\ sret[t].val[1].rules[1] # sret[t].val[1].rules[2]

\* C12: get_all_rules returns Ok with one entry per set the registry had when
\* the call locked it, in the order of the registry, each with the uid and the
\* rules of its set in their order; for an empty registry it returns Ok with
\* an empty Vec.
C12_GetAllExact ==
  \A t \in Callers :
    Done(t, "all_unlock") =>
      /\ sret[t].ok
      /\ Len(sret[t].val) = Len(pre[t])
      /\ \A i \in 1..Len(pre[t]) :
           /\ sret[t].val[i].uid = pre[t][i].uid
           /\ sret[t].val[i].rules = pre[t][i].rules
      /\ pre[t] = <<>> => sret[t] = Ok(<<>>)

\* a get_all_rules returned two sets, the first of them with two rules
C12_Witness ==
  \E t \in Callers :
    /\ Done(t, "all_unlock") /\ sret[t].ok
    /\ Len(sret[t].val) = 2
    /\ Len(sret[t].val[1].rules) = 2

ReadStep(t) ==
  /\ pc[t] = "store_ret" /\ frame[t] = "read"
  /\ pc'[t] = "ret" /\ sret'[t].ok

\* caller t has left rust_read
ReadDone(t) == pc[t] = "ret" /\ frame[t] = "read"

\* C14: while the registry is the one the first read of a sequence from
\* offset 0 rendered and every read succeeded, the bytes delivered so far are
\* the first `offset` bytes of the dump of that registry; and when a read
\* with count >= 1 then returns 0, they are the whole dump of the registry.
C14_PaginationComplete ==
  \A t \in Callers :
    /\ hist[t].clean =>
         hist[t].got = SubSeq(Dump(hist[t].reg), 1, offset[t])
    /\ (ReadDone(t) /\ hist[t].clean /\ hist[t].started /\ count[t] >= 1 /\ ret[t] = 0)
         => hist[t].got = Dump(store)

\* the sixth read of 10 bytes from offset 0 delivered the last 8 bytes of the
\* dump of the seeded registry
C14_Witness ==
  \E t \in Callers :
    /\ ReadDone(t) /\ hist[t].clean /\ hist[t].started
    /\ count[t] = 10 /\ ret[t] = 8
    /\ store = init_rules(<<>>)
    /\ hist[t].got = Dump(store)

\* C15: a read at an offset below the length of the dump of the registry,
\* when the render succeeds and the buffer can be written, returns
\* min(count, length - offset), writes exactly the bytes of the dump from
\* offset up to offset + that number, and moves the offset by that number.
C15_ReadSlice ==
  [][\A t \in Callers :
       (/\ ReadStep(t)
        /\ arg[t].writable
        /\ offset[t] < Len(Dump(store)))
       => LET n == IF count[t] <= Len(Dump(store)) - offset[t]
                   THEN count[t] ELSE Len(Dump(store)) - offset[t]
          IN  /\ ret'[t] = n
              /\ uout'[t] = [i \in 1..n |-> Dump(store)[offset[t] + i]]
              /\ offset'[t] = offset[t] + n]_vars

\* a read of 10 bytes at offset 30 delivered 10 bytes, of two sets in the registry
C15_Witness ==
  \E t \in Callers :
    /\ ReadDone(t) /\ sret[t].ok
    /\ count[t] = 10 /\ ret[t] = 10 /\ offset[t] = 40
    /\ Len(uout[t]) = 10
    /\ Len(store) = 2

\* C16: a read at an offset at or beyond the length of the dump of the
\* registry (0 for the empty registry), when the render succeeds, returns 0,
\* writes nothing to the buffer and leaves the offset as it is.
C16_ReadEof ==
  [][\A t \in Callers :
       (ReadStep(t) /\ offset[t] >= Len(Dump(store)))
       => /\ ret'[t] = 0
          /\ uout'[t] = <<>>
          /\ offset'[t] = offset[t]]_vars

\* a read of the empty registry at offset 0 with room for 10 bytes returned 0
C16_Witness ==
  \E t \in Callers :
    /\ ReadDone(t) /\ sret[t].ok
    /\ store = <<>> /\ offset[t] = 0 /\ count[t] = 10
    /\ ret[t] = 0 /\ uout[t] = <<>>

\* C17: the value rust_read returns is never greater than count, on any of
\* its return paths.
C17_ReturnBounded ==
  \A t \in Callers : ReadDone(t) => ret[t] <= count[t]

\* C18: a read that continues a sequence during which the registry was
\* mutated renders the dump of the registry as it is now, and what it writes
\* is the slice of that dump at its offset.
C18_ReadsCurrent ==
  [][\A t \in Callers :
       (ReadStep(t) /\ hist[t] = StaleHist)
       => /\ sret'[t].val = Dump(store)
          /\ uout'[t] # <<>> =>
               uout'[t] = SubSeq(Dump(store), offset[t] + 1, offset'[t])]_vars

\* after 10 bytes were read and a set was added for another uid, the next read
\* delivered the rest of the dump of the two sets
C18_Witness ==
  \E t \in Callers :
    /\ ReadDone(t) /\ hist[t] = StaleHist /\ sret[t].ok
    /\ Len(store) = 2
    /\ offset[t] = Len(Dump(store))
    /\ Len(uout[t]) = Len(Dump(store)) - 10

\* the layout of the dump, written out: a number in decimal (below 10000) ...
Decimal(n) ==
  LET ds == <<(n \div 1000) % 10, (n \div 100) % 10, (n \div 10) % 10, n % 10>>
      first == IF ds[1] # 0 THEN 1 ELSE IF ds[2] # 0 THEN 2 ELSE IF ds[3] # 0 THEN 3 ELSE 4
  IN  [i \in 1..(5 - first) |-> 48 + ds[first + i - 1]]

\* ... the three kinds of lines, each ended by a newline ...
Line(b) == b \o <<10>>
HeaderText(u) ==
  <<45, 45, 45, 45, 32, 85, 73, 68, 58, 32>> \o Decimal(u) \o <<32, 45, 45, 45, 45>>
RuleText(i, r) == <<82, 117, 108, 101, 32>> \o Decimal(i) \o <<58, 32>> \o r
FooterText == <<32, 45, 45, 45, 45, 32, 45, 45, 45, 45, 32, 45, 45, 45, 45>>

RECURSIVE Concat(_)
Concat(ss) == IF ss = <<>> THEN <<>> ELSE Head(ss) \o Concat(Tail(ss))

\* ... and the lines of a set and of a registry
SetText(ur) ==
  Line(HeaderText(ur.uid))
    \o Concat([i \in 1..Len(ur.rules) |-> Line(RuleText(i, ur.rules[i]))])
    \o Line(FooterText)
DumpText(s) == Concat([k \in 1..Len(s) |-> SetText(s[k])])

\* C20: the dump a read renders is, set after set in the order of the
\* registry, the line "---- UID: <uid> ----", one line "Rule <i>: <rule>" per
\* rule with i counting from 1 in the order of the set, and the line
\* " ---- ---- ----", each ended by a newline; for the empty registry it is
\* empty.
C20_DumpFormat ==
  \A t \in Callers :
    (ReadDone(t) /\ sret[t].ok) =>
      /\ sret[t].val = DumpText(store)
      /\ store = <<>> => sret[t].val = <<>>

\* a read rendered one set that has two different rules
C20_Witness ==
  \E t \in Callers :
    /\ ReadDone(t) /\ sret[t].ok
    /\ Len(store) = 1 /\ Len(store[1].rules) = 2
    /\ store[1].rules[1] # store[1].rules[2]
    /\ Len(sret[t].val) > 0

\* a read rendered two sets
C20_WitnessTwoSets ==
  \E t \in Callers :
    /\ ReadDone(t) /\ sret[t].ok
    /\ Len(store) = 2 /\ store[1].uid # INITIAL_UID

\* C19: a READ_RULES request never has more than RULE_BUFFER_SIZE bytes in
\* the caller's buffer, and one that succeeds has written there the first
\* min(length of the dump, RULE_BUFFER_SIZE) bytes of the dump of the set of
\* the uid it asked for.
C19_QueryTruncated ==
  [][\A t \in Callers :
       /\ Len(uout'[t]) <= RULE_BUFFER_SIZE
       /\ (/\ pc[t] = "store_ret" /\ frame[t] = "ioctl" /\ cmd[t] = IOCTL_READ_RULES
           /\ sret[t].ok
           /\ pc'[t] = "ret" /\ ret'[t] = 0)
          => LET u == sret[t].val[1].uid
                 dump == SetText(UserRule(u, RulesOf(store, u)))
                 n == IF Len(dump) <= RULE_BUFFER_SIZE THEN Len(dump) ELSE RULE_BUFFER_SIZE
             IN  uout'[t] = [i \in 1..n |-> dump[i]]]_vars

\* a query of a uid with 16 rules of RULE_SIZE bytes, whose dump is longer
\* than RULE_BUFFER_SIZE, succeeded and wrote RULE_BUFFER_SIZE bytes
C19_Witness ==
  \E t \in Callers :
    /\ pc[t] = "ret" /\ frame[t] = "ioctl" /\ cmd[t] = IOCTL_READ_RULES
    /\ ret[t] = 0
    /\ Len(uout[t]) = RULE_BUFFER_SIZE
    /\ \E u \in Uids :
         /\ Len(RulesOf(store, u)) = 16
         /\ Len(SetText(UserRule(u, RulesOf(store, u)))) > RULE_BUFFER_SIZE
         /\ uout[t] = SubSeq(SetText(UserRule(u, RulesOf(store, u))), 1, RULE_BUFFER_SIZE)

\* --------------------------------------------------------- control requests
\* the errno a return value stands for, whatever its sign
Kind(v) == IF v < 0 THEN 0 - v ELSE v

\* caller t enters rust_ioctl in this step
IoctlEnter(t) == pc[t] = "idle" /\ frame'[t] = "ioctl"

\* caller t is inside add_rule or remove_rule, called by rust_ioctl
InUpdate(t) ==
  /\ frame[t] = "ioctl"
  /\ pc[t] \in {"add_lock", "add_find", "add_push", "add_unlock",
                "rem_lock", "rem_retain", "rem_prune", "rem_unlock"}

\* the bytes of a field that stand before its first zero byte
BeforeZero(field) ==
  [i \in 1..Cardinality({k \in 1..Len(field) : \A j \in 1..k : field[j] # 0})
     |-> field[i]]

KnownCmds == {IOCTL_ADD_RULE, IOCTL_REMOVE_RULE, IOCTL_READ_RULES}

\* C22: the rule an ADD_RULE or REMOVE_RULE request passes to the store is the
\* bytes of the rule field before its first zero byte (the whole field when it
\* has none), with the uid of the record; the registry it leaves is the one
\* add_rule or remove_rule of that rule gives, whatever follows the zero byte.
C22_DecodeBeforeZero ==
  \A t \in Callers :
    /\ InUpdate(t) =>
         /\ rule[t] = BeforeZero(urec[t].rule)
         /\ uid[t] = urec[t].uid
    /\ (InUpdate(t) /\ Done(t, "add_unlock") /\ sret[t].ok) =>
         store = add_rule(pre[t], urec[t].uid, BeforeZero(urec[t].rule))
    /\ (InUpdate(t) /\ Done(t, "rem_unlock")) =>
         store = remove_rule(pre[t], urec[t].uid, BeforeZero(urec[t].rule))

\* the rule "a" was added from a field that holds "a", a zero byte and "b"
C22_Witness ==
  \E t \in Callers :
    /\ InUpdate(t) /\ Done(t, "add_unlock") /\ sret[t].ok
    /\ urec[t].rule = Field(<<97, 0, 98>>)
    /\ rule[t] = <<97>>
    /\ In(<<97>>, RulesOf(store, uid[t]))

\* a rule of RULE_SIZE bytes was added from a field with no zero byte
C22_WitnessFull ==
  \E t \in Callers :
    /\ InUpdate(t) /\ Done(t, "add_unlock") /\ sret[t].ok
    /\ urec[t].rule = Fill(RULE_SIZE, 120)
    /\ Len(rule[t]) = RULE_SIZE

\* C23: rust_ioctl called with a null argument, whatever the command, returns
\* at once with the errno EINVAL (its sign is the matter of C26): nothing is
\* copied from the caller, the mutex is not taken, and the registry and the
\* caller's buffer are as before.
C23_NullArgument ==
  [][\A t \in Callers :
       (IoctlEnter(t) /\ arg'[t].null)
       => /\ pc'[t] = "ret"
          /\ Kind(ret'[t]) = EINVAL
          /\ urec'[t] = NoRec /\ rule'[t] = <<>>
          /\ mutex' = mutex /\ mutex # t
          /\ store' = store
          /\ uout' = uout]_vars

\* an ADD_RULE request with a null argument has returned
C23_Witness ==
  \E t \in Callers :
    /\ pc[t] = "ret" /\ frame[t] = "ioctl"
    /\ arg[t].null /\ cmd[t] = IOCTL_ADD_RULE
    /\ Kind(ret[t]) = EINVAL

\* C24 as stated: a request with a command that is none of the three, and an
\* argument that is not null, returns an error of a kind of its own (not the
\* errno of InvalidArgument, Fault or ResourceExhausted), and changes neither
\* the registry nor the caller's memory.
C24_UnknownCmdUnsupported ==
  [][\A t \in Callers :
       (IoctlEnter(t) /\ ~arg'[t].null /\ cmd'[t] \notin KnownCmds)
       => /\ pc'[t] = "ret"
          /\ ret'[t] # 0
          /\ Kind(ret'[t]) \notin {EINVAL, EFAULT, ENOMEM}
          /\ store' = store
          /\ uout' = uout]_vars

\* C24, amended: such a request returns the errno EINVAL, the one a null
\* argument gets, never 0, and changes neither the registry nor the caller's
\* memory.
C24_UnknownCmdInvalid ==
  [][\A t \in Callers :
       (IoctlEnter(t) /\ ~arg'[t].null /\ cmd'[t] \notin KnownCmds)
       => /\ pc'[t] = "ret"
          /\ ret'[t] # 0
          /\ Kind(ret'[t]) = EINVAL
          /\ urec'[t] = NoRec
          /\ store' = store
          /\ uout' = uout]_vars

\* a request with the command number READ_RULES had in an earlier version and
\* a good argument has returned
C24_Witness ==
  \E t \in Callers :
    /\ pc[t] = "ret" /\ frame[t] = "ioctl"
    /\ cmd[t] \notin KnownCmds
    /\ ~arg[t].null /\ arg[t].readable /\ arg[t].writable
    /\ ret[t] # 0

\* C25 as stated: a request with one of the three commands whose record
\* cannot be copied whole from the caller returns the errno EINVAL and leaves
\* the registry as it was.
C25_ShortRecordInvalid ==
  [][\A t \in Callers :
       (IoctlEnter(t) /\ ~arg'[t].null /\ ~arg'[t].readable /\ cmd'[t] \in KnownCmds)
       => /\ pc'[t] = "ret"
          /\ Kind(ret'[t]) = EINVAL
          /\ store' = store]_vars

\* C25, amended: such a request returns the errno EFAULT (Fault), decodes
\* nothing and leaves the registry as it was.
C25_ShortRecordFault ==
  [][\A t \in Callers :
       (IoctlEnter(t) /\ ~arg'[t].null /\ ~arg'[t].readable /\ cmd'[t] \in KnownCmds)
       => /\ pc'[t] = "ret"
          /\ Kind(ret'[t]) = EFAULT
          /\ urec'[t] = NoRec /\ rule'[t] = <<>>
          /\ store' = store]_vars

\* a READ_RULES request whose record could not be copied has returned
C25_Witness ==
  \E t \in Callers :
    /\ pc[t] = "ret" /\ frame[t] = "ioctl"
    /\ cmd[t] = IOCTL_READ_RULES
    /\ ~arg[t].null /\ ~arg[t].readable
    /\ Kind(ret[t]) = EFAULT

\* C26: rust_ioctl returns 0 or a negative number, and a negative number
\* whenever the request failed at the null check.
C26_ErrorsNegative ==
  \A t \in Callers :
    (pc[t] = "ret" /\ frame[t] = "ioctl") =>
      /\ ret[t] <= 0
      /\ arg[t].null => ret[t] < 0

\* C28: when add_rule fails for want of memory, rust_ioctl returns the errno
\* ENOMEM.
C28_NoMemoryReported ==
  [][\A t \in Callers :
       (/\ pc[t] = "store_ret" /\ frame[t] = "ioctl" /\ cmd[t] = IOCTL_ADD_RULE
        /\ sret[t] = Err(ENOMEM)
        /\ pc'[t] = "ret")
       => Kind(ret'[t]) = ENOMEM]_vars

\* C29: get_rules_by_id of a uid with no set returns Err, never Ok with
\* nothing; a READ_RULES request for such a uid returns the errno EINVAL,
\* writes nothing and leaves the registry as it was; and a READ_RULES request
\* that returns 0 has written the dump of a set.
C29_AbsentIsError ==
  [][\A t \in Callers :
       /\ (Done(t, "get_unlock") /\ ~HasSet(pre[t], uid[t])) => sret[t] = Err(EINVAL)
       /\ (/\ pc[t] = "store_ret" /\ frame[t] = "ioctl" /\ cmd[t] = IOCTL_READ_RULES
           /\ pc'[t] = "ret")
          => /\ store' = store
             /\ ~HasSet(store, urec[t].uid) =>
                  /\ ret'[t] # 0
                  /\ Kind(ret'[t]) = EINVAL
                  /\ uout'[t] = <<>>
             /\ ret'[t] = 0 => uout'[t] # <<>>]_vars

\* a READ_RULES request for a uid with no set, with a good argument, has
\* returned, the registry holding the seeded set
C29_Witness ==
  \E t \in Callers :
    /\ pc[t] = "ret" /\ frame[t] = "ioctl" /\ cmd[t] = IOCTL_READ_RULES
    /\ arg[t].readable /\ arg[t].writable
    /\ ~HasSet(store, urec[t].uid)
    /\ ret[t] # 0 /\ uout[t] = <<>>
    /\ HasSet(store, INITIAL_UID)

\* caller t is in this step leaving a READ_RULES request, the set cloned
QueryStep(t) ==
  /\ pc[t] = "store_ret" /\ frame[t] = "ioctl" /\ cmd[t] = IOCTL_READ_RULES
  /\ sret[t].ok
  /\ pc'[t] = "ret"

\* the bytes a read of count n at offset o delivers of registry s, and the
\* bytes a query of uid u delivers, as functions of the registry alone
ReadText(s, o, n) ==
  LET d == DumpText(s)
      len == IF o >= Len(d) THEN 0 ELSE IF n <= Len(d) - o THEN n ELSE Len(d) - o
  IN  [i \in 1..len |-> d[o + i]]

QueryText(s, u) ==
  LET d == SetText(UserRule(u, RulesOf(s, u)))
  IN  [i \in 1..(IF Len(d) <= RULE_BUFFER_SIZE THEN Len(d) ELSE RULE_BUFFER_SIZE) |-> d[i]]

\* C21: what a read that succeeds delivers is a function of the registry, the
\* offset and the count alone, and what a query that succeeds delivers is a
\* function of the registry and the uid alone, whatever the caller did
\* before: so two such calls with the same arguments on the same registry
\* deliver the same bytes.
C21_RenderStateless ==
  [][\A t \in Callers :
       /\ (ReadStep(t) /\ (arg[t].writable \/ count[t] = 0))
          => /\ sret'[t].val = DumpText(store)
             /\ uout'[t] = ReadText(store, offset[t], count[t])
             /\ ret'[t] = Len(ReadText(store, offset[t], count[t]))
       /\ (QueryStep(t) /\ ret'[t] = 0)
          => uout'[t] = QueryText(store, urec[t].uid)]_vars

\* a read at offset 0 delivered bytes after an earlier read at offset 0 had
\* failed
C21_Witness ==
  \E t \in Callers :
    /\ ReadDone(t) /\ sret[t].ok
    /\ hist[t] = NoHist
    /\ Len(uout[t]) > 0 /\ offset[t] = Len(uout[t])

\* a query delivered the dump of a set of two rules
C21_WitnessQuery ==
  \E t \in Callers :
    /\ pc[t] = "ret" /\ frame[t] = "ioctl" /\ cmd[t] = IOCTL_READ_RULES
    /\ ret[t] = 0
    /\ Len(RulesOf(store, urec[t].uid)) = 2
    /\ uout[t] = QueryText(store, urec[t].uid)

\* C27: when the render of a read or of a READ_RULES request runs out of
\* memory, the call returns -ENOMEM, nothing is written to the caller's
\* buffer, the offset of a read stays where it was, and the registry is as
\* before.
C27_RenderFailure ==
  [][\A t \in Callers :
       (/\ pc[t] = "store_ret" /\ pc'[t] = "ret"
        /\ frame[t] = "read" \/ (frame[t] = "ioctl" /\ cmd[t] = IOCTL_READ_RULES)
        /\ sret[t].ok /\ ~sret'[t].ok)
       => /\ ret'[t] = 0 - ENOMEM
          /\ uout'[t] = <<>> /\ uout' = uout
          /\ offset' = offset
          /\ store' = store]_vars

\* the render of a read at an offset inside the dump ran out of memory: the
\* offset is where it was
C27_Witness ==
  \E t \in Callers :
    /\ ReadDone(t) /\ sret[t] = Err(ENOMEM)
    /\ offset[t] = 30 /\ count[t] = 30
    /\ uout[t] = <<>>
    /\ ret[t] < 0

\* the render of a READ_RULES request ran out of memory
C27_WitnessQuery ==
  \E t \in Callers :
    /\ pc[t] = "ret" /\ frame[t] = "ioctl" /\ cmd[t] = IOCTL_READ_RULES
    /\ sret[t] = Err(ENOMEM)
    /\ arg[t].writable
    /\ uout[t] = <<>> /\ ret[t] < 0

\* caller t is in this step copying from or to caller memory, decoding or
\* rendering: it enters rust_ioctl or rust_read (the record or the offset is
\* copied in and the rule decoded), or it leaves the store method with its
\* result (the dump is rendered and copied out, the offset written)
TransferStep(t) ==
  \/ pc[t] = "idle" /\ pc'[t] # "idle"
  \/ pc[t] = "store_ret" /\ pc'[t] = "ret"

\* C30: a caller does not hold the store's mutex in any step that copies from
\* or to caller memory, decodes or renders, neither before the step nor after
\* it: the record of an update is copied in and decoded before the method
\* locks, and the snapshot of a read or a query is rendered and copied out
\* after the method has unlocked.
C30_NoTransferUnderLock ==
  [][\A t \in Callers : TransferStep(t) => mutex # t /\ mutex' # t]_vars

\* the reader holds the snapshot it is about to render, and the writer has
\* since then completed an add that the snapshot does not have
C30_Witness ==
  /\ pc[Reader] = "store_ret" /\ frame[Reader] = "read" /\ sret[Reader].ok
  /\ pc[Writer] = "ret" /\ cmd[Writer] = IOCTL_ADD_RULE /\ ret[Writer] = 0
  /\ mutex = NoOwner
  /\ Len(sret[Reader].val) < Len(store)

\* the same for a query: the writer's remove of the set completed while the
\* reader holds the clone of the set
C30_WitnessQuery ==
  /\ pc[Reader] = "store_ret" /\ frame[Reader] = "ioctl" /\ sret[Reader].ok
  /\ pc[Writer] = "ret" /\ cmd[Writer] = IOCTL_REMOVE_RULE /\ ret[Writer] = 0
  /\ mutex = NoOwner
  /\ find(store, urec[Reader].uid) = 0

\* every rule of registry s is one Rule::clone copies when its allocation
\* succeeds
Clonable(s) ==
  \A i \in 1..Len(s) : \A k \in 1..Len(s[i].rules) : ~Rule_clone(s[i].rules[k], TRUE).panic

\* C31: every rule in the registry is one Rule::clone copies without a panic,
\* and a step in which a caller panics is a step in which an allocation
\* failed: the same step with its allocations succeeding does not panic,
\* whether it decodes a record, clones a set or starts a snapshot. So with
\* allocations succeeding no request and no read reaches a panic, whatever
\* the command, the uid, the rule field, the offset.
C31_NoPanicOnInput ==
  [][/\ Clonable(store')
     /\ \A t \in Callers :
          (pc[t] # "panic" /\ pc'[t] = "panic")
          => /\ pc[t] \in {"idle", "get_clone", "all_alloc", "all_loop"}
             /\ pc[t] = "idle"
                => /\ ~create_cstring_from_rule(urec'[t].rule, 0).panic
                   /\ frame'[t] = "ioctl"
             /\ pc[t] = "get_clone" => ~get_rules_by_id(store, uid[t], TRUE).panic
             /\ pc[t] = "all_loop" => ~UserRule_clone(store[idx[t]], TRUE).panic]_vars

\* a record whose rule field is not UTF-8 was refused with an error, no panic
C31_Witness ==
  \E t \in Callers :
    /\ pc[t] = "ret" /\ frame[t] = "ioctl" /\ cmd[t] = IOCTL_ADD_RULE
    /\ urec[t].rule = Field(<<255>>)
    /\ ret[t] # 0
    /\ ~panicked

\* a read at an offset beyond the dump returned, the registry holding a rule
\* of RULE_SIZE bytes
C31_WitnessRead ==
  \E t \in Callers :
    /\ ReadDone(t) /\ sret[t].ok /\ ret[t] = 0 /\ offset[t] = RULE_BUFFER_SIZE
    /\ \E i \in 1..Len(store) : In(Fill(RULE_SIZE, 120), store[i].rules)
    /\ ~panicked

\* a query returned the set that holds the empty rule a leading zero byte gives
C31_WitnessQuery ==
  \E t \in Callers :
    /\ pc[t] = "ret" /\ frame[t] = "ioctl" /\ cmd[t] = IOCTL_READ_RULES
    /\ ret[t] = 0
    /\ In(<<>>, RulesOf(store, urec[t].uid))
    /\ ~panicked

\* caller t enters rust_ioctl in this step with an ADD_RULE whose record is
\* copied from user space
AddEnter(t) ==
  /\ IoctlEnter(t) /\ cmd'[t] = IOCTL_ADD_RULE
  /\ ~arg'[t].null /\ arg'[t].readable

\* the request is decoded to rule b and goes on to add_rule, or it stops for
\* want of memory only: with its allocations succeeding the field decodes to b
AcceptedAs(t, b) ==
  \/ pc'[t] = "add_lock" /\ rule'[t] = b
  \/ pc'[t] \in {"ret", "panic"} /\ create_cstring_from_rule(urec'[t].rule, 0) = Ok(b)

C32_WitnessRefused ==
  \E t \in Callers :
    /\ pc[t] = "ret" /\ cmd[t] = IOCTL_ADD_RULE
    /\ arg[t].readable
    /\ urec[t].rule = Field(<<255>>) /\ Kind(ret[t]) = EINVAL
    /\ store = init_rules(<<>>)

\* the registry of the scenario: uid 1001 with ["a"], uid 2002 with ["b", "c"]
PagedRegistry ==
  <<UserRule(INITIAL_UID, <<<<97>>>>), UserRule(2002, <<<<98>>, <<99>>>>)>>

\* caller t has left a read of a sequence of successful reads of 10 bytes
\* from offset 0, all of them of the registry of the scenario
PagedRead(t) ==
  /\ ReadDone(t) /\ count[t] = 10
  /\ hist[t].clean /\ hist[t].started /\ hist[t].reg = PagedRegistry

\* C33 as stated: after three reads of 10 bytes from offset 0 (the offset
\* is 30) the bytes delivered are the full dump of the registry of the
\* scenario.
C33_ThreeReadsComplete ==
  \A t \in Callers :
    (PagedRead(t) /\ offset[t] = 30) => hist[t].got = DumpText(PagedRegistry)

\* C33, amended: the dump of the registry of the scenario has 102 bytes; reads
\* of 10 bytes from offset 0 deliver its bytes in order, 10 at a time and 2
\* in the eleventh read, the offset counting them; the bytes delivered are
\* the full dump when the offset is 102 and not before, so after three reads
\* they are its first 30 bytes.
C33_ElevenReadsComplete ==
  \A t \in Callers :
    PagedRead(t) =>
      /\ Len(DumpText(PagedRegistry)) = 102
      /\ hist[t].got = SubSeq(DumpText(PagedRegistry), 1, offset[t])
      /\ offset[t] \in {10 * k : k \in 0..10} \cup {102}
      /\ ret[t] = IF offset[t] = 102 /\ uout[t] # <<>> THEN 2
                  ELSE IF uout[t] # <<>> THEN 10 ELSE 0
      /\ hist[t].got = DumpText(PagedRegistry) <=> offset[t] = 102

\* the eleventh read delivered the last 2 bytes of the dump
C33_Witness ==
  \E t \in Callers :
    /\ PagedRead(t) /\ store = PagedRegistry
    /\ offset[t] = 102 /\ ret[t] = 2
    /\ hist[t].got = DumpText(PagedRegistry)

\* the third read left the offset at 30
C33_WitnessThree ==
  \E t \in Callers :
    /\ PagedRead(t) /\ store = PagedRegistry
    /\ offset[t] = 30 /\ ret[t] = 10
    /\ Len(hist[t].got) = 30

\* C34: a control request that returns an error has not changed the registry.
\* A request refused on entry (null argument, fault of the copy, rule that
\* does not decode, unknown command) returns non-zero in a step that leaves
\* the registry alone. An add whose allocation fails, the push of the new set
\* included, leaves the registry as it was when add_rule took the mutex, up
\* to the return; and rust_ioctl returns non-zero after add_rule or
\* remove_rule exactly when the method returned Err. The only steps that
\* change the registry are the push of an add that returns Ok and the retains
\* of a remove.
C34_ErrorLeavesRegistry ==
  [][\A t \in Callers :
       /\ (IoctlEnter(t) /\ pc'[t] = "ret") => ret'[t] # 0 /\ store' = store
       /\ (pc[t] = "add_push" /\ ~sret'[t].ok) => store' = store /\ store' = pre[t]
       /\ (pc[t] = "add_unlock" /\ ~sret[t].ok) => store = pre[t] /\ store' = store
       /\ (pc[t] = "store_ret" /\ frame[t] = "ioctl" /\ is_update(cmd[t]) /\ pc'[t] = "ret")
          => /\ ret'[t] # 0 <=> ~sret[t].ok
             /\ store' = store
       /\ (pc[t] # pc'[t] /\ store' # store)
          => \/ pc[t] = "add_push" /\ sret'[t].ok
             \/ pc[t] \in {"rem_retain", "rem_prune"}]_vars

\* an ADD_RULE for a uid without a set returned an error after its record was
\* copied and decoded: an allocation of add_rule failed, and the uid has no set
C34_Witness ==
  \E t \in Callers :
    /\ pc[t] = "ret" /\ frame[t] = "ioctl" /\ cmd[t] = IOCTL_ADD_RULE
    /\ arg[t].readable /\ Kind(ret[t]) = EFAULT
    /\ ~HasSet(store, urec[t].uid)
    /\ store = init_rules(<<>>)

\* caller t leaves rust_read in this step, on whatever path
ReadReturn(t) == pc[t] = "store_ret" /\ frame[t] = "read" /\ pc'[t] = "ret"

\* C35: a read that returns n > 0 has moved the caller's offset by exactly n,
\* and a read that returns 0 or a negative number has left it where it was.
C35_OffsetFollowsReturn ==
  [][\A t \in Callers :
       ReadReturn(t) =>
         IF ret'[t] > 0 THEN offset'[t] = offset[t] + ret'[t]
         ELSE offset'[t] = offset[t]]_vars

\* C36: when get_all_rules is about to release the mutex, the snapshot it
\* returns is the registry of that instant, whole; when get_rules_by_id is,
\* its clone is the set of that instant. No step of another caller changes
\* the snapshot afterwards, and the bytes the read delivers are the slice at
\* its offset of the dump of that snapshot, the bytes the query delivers a
\* prefix of the dump of that set: the bytes of one call come from one
\* registry state, whatever adds and removes complete meanwhile.
C36_OneSnapshot ==
  [][\A t \in Callers :
       /\ pc[t] = "all_unlock" => mutex = t /\ sret[t] = Ok(store)
       /\ (pc[t] = "get_unlock" /\ sret[t].ok)
          => mutex = t /\ sret[t].val = <<store[find(store, uid[t])]>>
       /\ (pc[t] \in {"all_unlock", "get_unlock", "store_ret"} /\ pc'[t] \in {pc[t], "store_ret"})
          => sret'[t] = sret[t]
       /\ ReadStep(t)
          => uout'[t] = ReadText(sret[t].val, offset[t], count[t])
       /\ (QueryStep(t) /\ ret'[t] = 0)
          => uout'[t] = QueryText(sret[t].val, urec[t].uid)]_vars

\* a read delivered bytes of the dump of the registry it took its snapshot
\* of, and the registry has since grown by a rule another caller added
C36_Witness ==
  /\ ReadDone(Reader) /\ sret[Reader].ok /\ ret[Reader] > 0
  /\ offset[Reader] = Len(DumpText(init_rules(<<>>)))
  /\ uout[Reader] = ReadText(init_rules(<<>>), 30, RULE_BUFFER_SIZE)
  /\ store # init_rules(<<>>)
  /\ pc[Writer] = "ret" /\ ret[Writer] = 0

\* a query delivered the dump of a set that another caller has since removed
C36_WitnessQuery ==
  /\ pc[Reader] = "ret" /\ frame[Reader] = "ioctl" /\ ret[Reader] = 0
  /\ uout[Reader] = SetText(UserRule(urec[Reader].uid, <<<<97>>>>))
  /\ ~HasSet(store, urec[Reader].uid)

\* caller t has called a store method and waits for its mutex
Waiting(t) == pc[t] \in {"add_lock", "rem_lock", "get_lock", "all_lock"}

\* C37: under a fair scheduler and a fair mutex, every caller that has called
\* add_rule, remove_rule, get_rules_by_id or get_all_rules gets the method's
\* result, whatever the other callers do.
C37_EventuallyResult ==
  \A t \in Callers : Waiting(t) ~> (pc[t] = "store_ret")

\* the same, unless a thread panics
C37_ResultUnlessPanic ==
  \A t \in Callers : Waiting(t) ~> (pc[t] = "store_ret" \/ panicked)

\* caller t is in this step inside a read or a READ_RULES request: it enters
\* one, runs get_all_rules or get_rules_by_id, renders, copies out or returns
InQuery(t) ==
  \/ pc[t] = "idle" /\ (frame'[t] = "read" \/ cmd'[t] = IOCTL_READ_RULES)
  \/ pc[t] \in {"get_lock", "get_clone", "get_unlock",
                 "all_lock", "all_alloc", "all_loop", "all_unlock"}
  \/ /\ pc[t] \in {"store_ret", "ret"}
     /\ frame[t] = "read" \/ cmd[t] = IOCTL_READ_RULES

\* C38: no step of a read or of a READ_RULES request, get_all_rules and
\* get_rules_by_id included, changes the registry, whether the call succeeds,
\* fails or panics: with one caller the registry after the call is the
\* registry before it.
C38_QueriesReadOnly ==
  [][\A t \in Callers : InQuery(t) => store' = store]_vars

\* a query of a uid that has a set returned 0, and the set is in the registry
\* as the query delivered it
C38_Witness ==
  \E t \in Callers :
    /\ pc[t] = "ret" /\ frame[t] = "ioctl" /\ cmd[t] = IOCTL_READ_RULES
    /\ ret[t] = 0 /\ uout[t] # <<>>
    /\ HasSet(store, urec[t].uid)
    /\ uout[t] = QueryText(store, urec[t].uid)

\* a read delivered the first bytes of the dump of a registry of two sets,
\* and the registry still is that one
C38_WitnessRead ==
  \E t \in Callers :
    /\ ReadDone(t) /\ ret[t] > 0 /\ Len(store) = 2
    /\ uout[t] = ReadText(store, offset[t] - ret[t], count[t])

\* a query of a uid without a set returned an error, the registry as it was
C38_WitnessError ==
  \E t \in Callers :
    /\ pc[t] = "ret" /\ frame[t] = "ioctl" /\ cmd[t] = IOCTL_READ_RULES
    /\ arg[t].readable /\ ret[t] # 0
    /\ ~HasSet(store, urec[t].uid)
    /\ store = init_rules(<<>>)

\* the uids of the sets of registry s, in the order of the registry
UidOrder(s) == [i \in 1..Len(s) |-> s[i].uid]

\* C39: the order of the sets is the order of their creation. A successful
\* add to a uid that has a set leaves the order of the uids as it was, and
\* one to a uid that has none puts the uid last; a remove that empties the
\* set of a uid takes that uid out and keeps the others in their order, any
\* other remove keeps the order; and nothing else changes the registry. So a
\* uid whose set was pruned and that is added again comes last.
C39_CreationOrder ==
  [][\A t \in Callers :
       /\ (Done(t, "add_unlock") /\ sret[t].ok) =>
            UidOrder(store) = IF HasSet(pre[t], uid[t]) THEN UidOrder(pre[t])
                              ELSE Append(UidOrder(pre[t]), uid[t])
       /\ Done(t, "rem_unlock") =>
            UidOrder(store) =
              IF HasSet(pre[t], uid[t])
                 /\ \A k \in 1..Len(RulesOf(pre[t], uid[t])) :
                      RulesOf(pre[t], uid[t])[k] = rule[t]
              THEN SelectSeq(UidOrder(pre[t]), LAMBDA v : v # uid[t])
              ELSE UidOrder(pre[t])
       /\ (pc[t] # pc'[t] /\ store' # store) =>
            pc[t] \in {"add_push", "rem_retain", "rem_prune"}]_vars

\* the uid of module init, pruned, was added again after two other uids had
\* got their sets: it is the last of the three
C39_Witness ==
  \E t \in Callers :
    /\ Done(t, "add_unlock") /\ sret[t].ok /\ uid[t] = INITIAL_UID
    /\ UidOrder(pre[t]) = <<2002, 3003>>
    /\ UidOrder(store) = <<2002, 3003, INITIAL_UID>>

\* the set in the middle of three was pruned
C39_WitnessPrune ==
  \E t \in Callers :
    /\ Done(t, "rem_unlock") /\ uid[t] = 2002
    /\ UidOrder(pre[t]) = <<INITIAL_UID, 2002, 3003>>
    /\ UidOrder(store) = <<INITIAL_UID, 3003>>

\* a rule was added to the first of two sets
C39_WitnessAdd ==
  \E t \in Callers :
    /\ Done(t, "add_unlock") /\ sret[t].ok
    /\ Len(pre[t]) = 2 /\ uid[t] = pre[t][1].uid
    /\ UidOrder(store) = UidOrder(pre[t])

\* C40: a READ_RULES request that returns 0 has written the first n bytes of
\* the dump of the set, n = min(length of the dump, RULE_BUFFER_SIZE), to the
\* first n bytes of the caller's rules_buffer and nothing else: the four
\* bytes of the uid field and the bytes of the buffer from index n on are the
\* ones the caller supplied.
C40_QueryWritesPrefix ==
  [][\A t \in Callers :
       (QueryStep(t) /\ ret'[t] = 0) =>
         \A d \in {QueryText(store, urec[t].uid)} :
           /\ umem[t] = UserRecord(urec[t].uid)
           /\ Len(umem'[t]) = SIZE_U32 + RULE_BUFFER_SIZE
           /\ \A i \in 1..SIZE_U32 : umem'[t][i] = umem[t][i]
           /\ \A i \in 1..Len(d) : umem'[t][SIZE_U32 + i] = d[i]
           /\ \A i \in (Len(d) + 1)..RULE_BUFFER_SIZE :
                umem'[t][SIZE_U32 + i] = umem[t][SIZE_U32 + i]]_vars

\* a query wrote a dump shorter than the buffer: the byte after the dump is
\* the caller's
C40_Witness ==
  \E t \in Callers :
    /\ pc[t] = "ret" /\ frame[t] = "ioctl" /\ cmd[t] = IOCTL_READ_RULES /\ ret[t] = 0
    /\ Len(uout[t]) > 0 /\ Len(uout[t]) < RULE_BUFFER_SIZE
    /\ umem[t][SIZE_U32 + Len(uout[t])] = 10
    /\ umem[t][SIZE_U32 + Len(uout[t]) + 1] = 170
    /\ SubSeq(umem[t], 1, SIZE_U32) = to_le_bytes(urec[t].uid)

\* a query wrote a dump cut to the whole buffer
C40_WitnessFull ==
  \E t \in Callers :
    /\ pc[t] = "ret" /\ frame[t] = "ioctl" /\ cmd[t] = IOCTL_READ_RULES /\ ret[t] = 0
    /\ Len(uout[t]) = RULE_BUFFER_SIZE
    /\ SubSeq(umem[t], SIZE_U32 + 1, SIZE_U32 + RULE_BUFFER_SIZE) = uout[t]
    /\ SubSeq(umem[t], 1, SIZE_U32) = to_le_bytes(urec[t].uid)

====
